---- MODULE Spec2Model ----
(***************************************************************************)
(* A model of the nachricht wire format: the header codec                  *)
(* (src/nachricht/src/header.rs) and the Value encoder and decoder         *)
(* (src/nachricht/src/value.rs).                                           *)
(*                                                                         *)
(* A byte is an integer in 0..255.  A u64 is its big-endian numeral in     *)
(* base 256, a sequence of 8 bytes: this is what u64::to_be_bytes and      *)
(* u64::from_be_bytes exchange, and it keeps all 64 bits (TLC's integers   *)
(* have 32).  The arithmetic the code does on u64 (comparison, i - 1,      *)
(* saturating_add(1), size) is done on the numeral.  The target is a       *)
(* 64-bit one: usize has UsizeBytes bytes.                                 *)
(***************************************************************************)
EXTENDS Integers, Sequences, FiniteSets, TLC

VARIABLES
    \* the header codec, driven as in header.rs's tests
    hdr,        \* the Header handed to Header::encode
    hwire,      \* the buffer: the chunks of bytes written, or a wire form
    hres,       \* the result of Header::decode on hwire
    hlong,      \* a hand-made buffer: an over-long form of hdr, or raw bytes
    hlres,      \* the result of Header::decode on hlong
    hdst,       \* the chunks written by re-encoding hlres (tests::lead_bytes)
    hpc,        \* "init" | "encoded" | "decoded" | "made" | "read" | "rewritten"
    \* Encoder (value.rs:124-132) and its caller
    ins,        \* the (key, value) pairs the caller built a Record from
    val,        \* the Value handed to Encoder::encode
    todo,       \* the encoder's position: the items still to be emitted
    writer,     \* writer: the sequence of write_all calls so far
    next_free,  \* Encoder.next_free
    symbols,    \* Encoder.symbols: the set of [k |-> text, i |-> index]
    records,    \* Encoder.records: the set of [k |-> keys, i |-> index]
    ecount,     \* the sum of the byte counts returned so far
    hlog,       \* history: the items emitted, in order (see Emitted)
    epc,        \* "idle" | "run" | "done"
    \* Decoder (value.rs:227-231) and its caller
    buf,        \* Decoder.buf
    pos,        \* Decoder.pos
    dsymbols,   \* Decoder.symbols: the sequence of Refable entries
    dstack,     \* the decoder's position: the open decode_value frames
    dres,       \* the result of Decoder::decode
    dpc,        \* "idle" | "run" | "done"
    \* Preserializer (preser.rs:30-38) and its caller
    structs,    \* layouts.structs: the set of [name, variant, fields]
    variants,   \* layouts.variants: the set of [name, variant]
    pframes,    \* the open StructPreserializer / VariantPreserializer values
    pres,       \* the result of preserialize
    pseen,      \* history: every [name, variant, fields] completed so far
    ppc,        \* "off" | "run" | "done"
    \* to_bytes (ser.rs:12-17), from_bytes (de.rs:20-28) and their caller
    sval,       \* the value handed to to_bytes
    schecks,    \* whether the build checks integer overflow (debug builds)
    sser,       \* the Serializer after value.serialize
    sin,        \* the input handed to from_bytes
    sty,        \* the type T of from_bytes::<T>, given by a value of it
    sres,       \* the result of from_bytes
    spc,        \* "off" | "init" | "panicked" | "serialized" | "handed" | "done"
    \* the caller of several Encoder::encode or Decoder::decode calls
    sent,       \* history: [v, out] of every earlier Encoder::encode call
    seen        \* history: [buf, res, n] of every earlier Decoder::decode call

hvars == <<hdr, hwire, hres, hlong, hlres, hdst, hpc>>
evars == <<ins, val, todo, writer, next_free, symbols, records, ecount, hlog, epc>>
dvars == <<buf, pos, dsymbols, dstack, dres, dpc>>
pvars == <<structs, variants, pframes, pres, pseen, ppc>>
svars == <<sval, schecks, sser, sin, sty, sres, spc>>
cvars == <<sent, seen>>
bvars == <<pvars, svars, cvars>>
vars == <<hvars, evars, dvars, bvars>>

(***************************************************************************)
(* Bytes and u64 numerals                                                  *)
(***************************************************************************)
Byte == 0..255

U64Bytes == 8

UsizeBytes == 8

ZeroU64 == <<0, 0, 0, 0, 0, 0, 0, 0>>

MaxU64 == <<255, 255, 255, 255, 255, 255, 255, 255>>

\* The numeral of a small natural number (below 2^24).
NatToU64(n) ==
    <<0, 0, 0, 0, 0, (n \div 65536) % 256, (n \div 256) % 256, n % 256>>

\* The natural number of a numeral whose five high bytes are zero.
U64ToNat(a) == a[6] * 65536 + a[7] * 256 + a[8]

IsSmallU64(a) == \A i \in 1..5 : a[i] = 0

\* a < b on u64
U64Lt(a, b) ==
    \E i \in 1..8 : a[i] < b[i] /\ \A j \in 1..(i - 1) : a[j] = b[j]

\* 1 << (8 * k) as a u64, for k in 1..7
Shl1(k) == [i \in 1..8 |-> IF i = 8 - k THEN 1 ELSE 0]

\* i - 1 on u64, for i >= 1
U64Dec(a) ==
    LET k == CHOOSE i \in 1..8 : a[i] # 0 /\ \A j \in (i + 1)..8 : a[j] = 0
    IN  [i \in 1..8 |-> IF i < k THEN a[i] ELSE IF i = k THEN a[i] - 1 ELSE 255]

\* u64::wrapping_add(1)
U64WrapInc(a) ==
    IF a = MaxU64 THEN ZeroU64
    ELSE LET k == CHOOSE i \in 1..8 : a[i] # 255 /\ \A j \in (i + 1)..8 : a[j] = 255
         IN  [i \in 1..8 |-> IF i < k THEN a[i] ELSE IF i = k THEN a[i] + 1 ELSE 0]

\* u64::saturating_add(1)
U64SatInc(a) ==
    IF a = MaxU64 THEN MaxU64
    ELSE LET k == CHOOSE i \in 1..8 : a[i] # 255 /\ \A j \in (i + 1)..8 : a[j] = 255
         IN  [i \in 1..8 |-> IF i < k THEN a[i] ELSE IF i = k THEN a[i] + 1 ELSE 0]

\* a << k and a | b on u8
Shl8(a, k) == (a * (2 ^ k)) % 256

RECURSIVE BitOr(_, _)
BitOr(a, b) ==
    IF a = 0 THEN b
    ELSE IF b = 0 THEN a
    ELSE (IF a % 2 = 1 \/ b % 2 = 1 THEN 1 ELSE 0) + 2 * BitOr(a \div 2, b \div 2)

RECURSIVE Flatten(_)
Flatten(chunks) ==
    IF chunks = <<>> THEN <<>> ELSE Head(chunks) \o Flatten(Tail(chunks))

(***************************************************************************)
(* header.rs                                                               *)
(***************************************************************************)
BIN == 0
INT == 1
STR == 2
SYM == 3
ARR == 4
REC == 5
MAP == 6
REF == 7

NIL == 0
TRU == 1
FAL == 2
F32 == 3
F64 == 4

POS == 0
NEG == 1

\* Code::sz_limit
sz_limit(c) ==
    IF c = INT THEN (2 ^ 4) - 8
    ELSE IF c = BIN THEN (2 ^ 5) - 8 - 5
    ELSE (2 ^ 5) - 8

\* Sign::code
Sign_code(s) == IF s = "Pos" THEN POS ELSE NEG

FixedKinds == {"Null", "True", "False", "F32", "F64"}

LenKinds == {"Bin", "Str", "Sym", "Arr", "Rec", "Map", "Ref"}

\* enum Header: one record shape for all thirteen variants; sign is "Pos" and
\* n is ZeroU64 where the variant has none.
Hdr(kind, sign, n) == [h |-> kind, sign |-> sign, n |-> n]

HFixed(kind) == Hdr(kind, "Pos", ZeroU64)

HLen(kind, n) == Hdr(kind, "Pos", n)

\* Header::code
code(h) ==
    CASE h.h \in FixedKinds \cup {"Bin"} -> BIN
      [] h.h = "Int" -> INT
      [] h.h = "Str" -> STR
      [] h.h = "Sym" -> SYM
      [] h.h = "Arr" -> ARR
      [] h.h = "Rec" -> REC
      [] h.h = "Map" -> MAP
      [] h.h = "Ref" -> REF

\* Header::code_bits
code_bits(h) ==
    IF h.h = "Int" THEN BitOr(Shl8(code(h), 1), Sign_code(h.sign)) ELSE code(h)

\* Header::shift
shift(h) == IF h.h = "Int" THEN 4 ELSE 5

\* size with every threshold taken inclusively
size_inclusive(value) ==
    IF ~U64Lt(Shl1(1), value) THEN 1
    ELSE IF ~U64Lt(Shl1(2), value) THEN 2
    ELSE IF ~U64Lt(Shl1(3), value) THEN 3
    ELSE IF ~U64Lt(Shl1(4), value) THEN 4
    ELSE IF ~U64Lt(Shl1(5), value) THEN 5
    ELSE IF ~U64Lt(Shl1(6), value) THEN 6
    ELSE IF ~U64Lt(Shl1(7), value) THEN 7
    ELSE 8

\* size that always asks for the full width
size_full(value) == U64Bytes

\* Header::size
size(value) ==
    IF U64Lt(value, Shl1(1)) THEN 1
    ELSE IF U64Lt(value, Shl1(2)) THEN 2
    ELSE IF U64Lt(value, Shl1(3)) THEN 3
    ELSE IF U64Lt(value, Shl1(4)) THEN 4
    ELSE IF U64Lt(value, Shl1(5)) THEN 5
    ELSE IF U64Lt(value, Shl1(6)) THEN 6
    ELSE IF U64Lt(value, Shl1(7)) THEN 7
    ELSE 8

\* Header::to_usize: Ok iff the value fits the target's usize
to_usize_ok(value) == \A i \in 1..(U64Bytes - UsizeBytes) : value[i] = 0

\* The outcome of an encode: the write_all calls made, in order, and the
\* returned number of written bytes.
Wrote(chunks, n) == [chunks |-> chunks, n |-> n]

\* encode_long_header that writes the bytes of the value one by one
encode_long_header_bytewise(h, i) ==
    LET limit == sz_limit(code(h))
        offset == IF h.h = "Bin" THEN 5 ELSE 0
    IN  IF U64Lt(i, NatToU64(limit))
        THEN Wrote(<< <<BitOr(Shl8(code_bits(h), shift(h)), i[8] + offset)>> >>, 1)
        ELSE LET sz == size(i)
             IN  Wrote(<< <<BitOr(Shl8(code_bits(h), shift(h)), sz + limit + offset - 1)>> >>
                          \o [k \in 1..sz |-> <<i[8 - sz + k]>>],
                       1 + sz)

\* Header::encode_long_header
encode_long_header(h, i) ==
    LET limit == sz_limit(code(h))
        offset == IF h.h = "Bin" THEN 5 ELSE 0
    IN  IF U64Lt(i, NatToU64(limit))
        THEN Wrote(<< <<BitOr(Shl8(code_bits(h), shift(h)), i[8] + offset)>> >>, 1)
        ELSE LET sz == size(i)
             IN  Wrote(<< <<BitOr(Shl8(code_bits(h), shift(h)), sz + limit + offset - 1)>>,
                          SubSeq(i, 8 - sz + 1, 8) >>,
                       1 + sz)

\* Header::encode (to_u64 cannot fail: usize is no wider than u64)
Header_encode(h) ==
    CASE h.h = "Null"  -> Wrote(<< <<BitOr(Shl8(code_bits(h), shift(h)), NIL)>> >>, 1)
      [] h.h = "True"  -> Wrote(<< <<BitOr(Shl8(code_bits(h), shift(h)), TRU)>> >>, 1)
      [] h.h = "False" -> Wrote(<< <<BitOr(Shl8(code_bits(h), shift(h)), FAL)>> >>, 1)
      [] h.h = "F32"   -> Wrote(<< <<BitOr(Shl8(code_bits(h), shift(h)), F32)>> >>, 1)
      [] h.h = "F64"   -> Wrote(<< <<BitOr(Shl8(code_bits(h), shift(h)), F64)>> >>, 1)
      [] h.h = "Int" /\ h.sign = "Neg" /\ h.n = ZeroU64
                       -> encode_long_header(Hdr("Int", "Pos", ZeroU64), ZeroU64)
      [] h.h = "Int" /\ h.sign = "Pos" -> encode_long_header(h, h.n)
      [] h.h = "Int" /\ h.sign = "Neg" /\ h.n # ZeroU64
                       -> encode_long_header(h, U64Dec(h.n))
      [] h.h \in LenKinds -> encode_long_header(h, h.n)

\* The outcome of a decode: Ok((value, consumed)) or Err(err).
Ok(v, c) == [ok |-> TRUE, v |-> v, c |-> c, err |-> "none"]

Err(e) == [ok |-> FALSE, v |-> ZeroU64, c |-> 0, err |-> e]

\* decode_u64 without the length check: the slice index goes out of range
decode_u64_unchecked(b, sz, limit) ==
    IF sz < limit THEN Ok(NatToU64(sz), 0)
    ELSE LET bytes == sz - limit + 1
         IN  IF Len(b) < bytes \/ bytes > 8 THEN Err("Panic")
             ELSE Ok([i \in 1..8 |-> IF i <= 8 - bytes THEN 0 ELSE b[i - (8 - bytes)]],
                     bytes)

\* decode_u64 that copies the trailing bytes to the front of tmp
decode_u64_front(b, sz, limit) ==
    IF sz < limit THEN Ok(NatToU64(sz), 0)
    ELSE LET bytes == sz - limit + 1
         IN  IF Len(b) < bytes THEN Err("Eof")
             ELSE IF bytes > 8 THEN Err("Panic")
             ELSE Ok([i \in 1..8 |-> IF i <= bytes THEN b[i] ELSE 0], bytes)

\* Header::decode_u64; the result's v is the u64, its c the bytes consumed.
\* tmp[8 - bytes..] panics when bytes > 8.
decode_u64(b, sz, limit) ==
    IF sz < limit THEN Ok(NatToU64(sz), 0)
    ELSE LET bytes == sz - limit + 1
         IN  IF Len(b) < bytes THEN Err("Eof")
             ELSE IF bytes > 8 THEN Err("Panic")
             ELSE Ok([i \in 1..8 |-> IF i <= 8 - bytes THEN 0 ELSE b[i - (8 - bytes)]],
                     bytes)

\* .and_then(|(i, c)| Ok((Header::X(Self::to_usize(i)?), c + 1)))
LenHeader(kind, r) ==
    IF ~r.ok THEN Err(r.err)
    ELSE IF ~to_usize_ok(r.v) THEN Err("Length")
    ELSE [ok |-> TRUE, v |-> HLen(kind, r.v), c |-> r.c + 1, err |-> "none"]

\* IntHeader with a plain i + 1, which overflows at the largest magnitude
IntHeader_plain(sign, r) ==
    IF ~r.ok THEN Err(r.err)
    ELSE IF sign = "Neg" /\ r.v = MaxU64 THEN Err("Panic")
    ELSE [ok |-> TRUE,
          v |-> Hdr("Int", sign, IF sign = "Neg" THEN U64SatInc(r.v) ELSE r.v),
          c |-> r.c + 1, err |-> "none"]

\* IntHeader that takes the wire magnitude as the magnitude
IntHeader_raw(sign, r) ==
    IF ~r.ok THEN Err(r.err)
    ELSE [ok |-> TRUE, v |-> Hdr("Int", sign, r.v), c |-> r.c + 1, err |-> "none"]

\* .map(|(i, c)| (Header::Int(sign, ..), c + 1))
IntHeader(sign, r) ==
    IF ~r.ok THEN Err(r.err)
    ELSE [ok |-> TRUE,
          v |-> Hdr("Int", sign, IF sign = "Neg" THEN U64SatInc(r.v) ELSE r.v),
          c |-> r.c + 1, err |-> "none"]

\* Header::decode; the result's v is the Header
Header_decode(b) ==
    IF Len(b) < 1 THEN Err("Eof")
    ELSE LET c == b[1] \div (2 ^ 5)
             sz == b[1] % (2 ^ 5)
             rest == Tail(b)
         IN  CASE c = BIN ->
                    (CASE sz = NIL -> Ok(HFixed("Null"), 1)
                       [] sz = TRU -> Ok(HFixed("True"), 1)
                       [] sz = FAL -> Ok(HFixed("False"), 1)
                       [] sz = F32 -> Ok(HFixed("F32"), 1)
                       [] sz = F64 -> Ok(HFixed("F64"), 1)
                       [] OTHER -> LenHeader("Bin", decode_u64(rest, sz - 5, sz_limit(BIN))))
               [] c = INT ->
                    LET sign == sz \div (2 ^ 4)
                        isz == sz % (2 ^ 4)
                    IN  IF sign = POS
                        THEN IntHeader("Pos", decode_u64(rest, isz, sz_limit(INT)))
                        ELSE IntHeader("Neg", decode_u64(rest, isz, sz_limit(INT)))
               [] c = STR -> LenHeader("Str", decode_u64(rest, sz, sz_limit(STR)))
               [] c = SYM -> LenHeader("Sym", decode_u64(rest, sz, sz_limit(SYM)))
               [] c = ARR -> LenHeader("Arr", decode_u64(rest, sz, sz_limit(ARR)))
               [] c = REC -> LenHeader("Rec", decode_u64(rest, sz, sz_limit(REC)))
               [] c = MAP -> LenHeader("Map", decode_u64(rest, sz, sz_limit(MAP)))
               [] c = REF -> LenHeader("Ref", decode_u64(rest, sz, sz_limit(REF)))

(***************************************************************************)
(* value.rs: enum Value                                                    *)
(*                                                                         *)
(* Every node has one record shape: t the variant, s the sign of an Int,   *)
(* b the bytes (the text of a Str or Symbol, the blob of Bytes, the        *)
(* big-endian bytes of a float, the u64 numeral of an Int, <<1>> or <<0>>  *)
(* of a Bool), e the children.  The children of a Map are "Pair" nodes     *)
(* (e = <<key, value>>); the children of a Record are "Field" nodes (b the *)
(* key, e = <<value>>) in ascending key order without duplicate keys, the  *)
(* iteration order of the BTreeMap.                                        *)
(***************************************************************************)
Val(t, s, b, e) == [t |-> t, s |-> s, b |-> b, e |-> e]

VNull == Val("Null", "Pos", <<>>, <<>>)

VBool(x) == Val("Bool", "Pos", IF x THEN <<1>> ELSE <<0>>, <<>>)

VF32(b) == Val("F32", "Pos", b, <<>>)

VF64(b) == Val("F64", "Pos", b, <<>>)

VBytes(b) == Val("Bytes", "Pos", b, <<>>)

VInt(s, n) == Val("Int", s, n, <<>>)

VStr(b) == Val("Str", "Pos", b, <<>>)

VSymbol(b) == Val("Symbol", "Pos", b, <<>>)

VArray(e) == Val("Array", "Pos", <<>>, e)

Pair(k, v) == Val("Pair", "Pos", <<>>, <<k, v>>)

VMap(pairs) == Val("Map", "Pos", <<>>, pairs)

Field(k, v) == Val("Field", "Pos", k, <<v>>)

VRecord(fields) == Val("Record", "Pos", <<>>, fields)

\* Value::typename
typename(v) ==
    CASE v.t = "Null"   -> "null"
      [] v.t = "Bool"   -> "bool"
      [] v.t = "F32"    -> "f32"
      [] v.t = "F64"    -> "f64"
      [] v.t = "Bytes"  -> "bytes"
      [] v.t = "Int"    -> "integer"
      [] v.t = "Str"    -> "string"
      [] v.t = "Symbol" -> "symbol"
      [] v.t = "Record" -> "record"
      [] v.t = "Map"    -> "map"
      [] v.t = "Array"  -> "array"

\* Ord for str: lexicographic on the bytes, a proper prefix first
BytesLt(a, b) ==
    \/ Len(a) < Len(b) /\ SubSeq(b, 1, Len(a)) = a
    \/ \E i \in 1..Len(a) :
          /\ i <= Len(b)
          /\ a[i] < b[i]
          /\ \A j \in 1..(i - 1) : a[j] = b[j]

\* BTreeMap::insert on the fields of a Record: a present key keeps its place
\* and gets the new value, a new key goes to its place in key order.
\* an insert that keeps the order of insertion
BTreeInsert_push(fields, k, v) ==
    IF \E i \in 1..Len(fields) : fields[i].b = k
    THEN [i \in 1..Len(fields) |-> IF fields[i].b = k THEN Field(k, v) ELSE fields[i]]
    ELSE Append(fields, Field(k, v))

BTreeInsert(fields, k, v) ==
    IF \E i \in 1..Len(fields) : fields[i].b = k
    THEN [i \in 1..Len(fields) |-> IF fields[i].b = k THEN Field(k, v) ELSE fields[i]]
    ELSE LET n == Cardinality({i \in 1..Len(fields) : BytesLt(fields[i].b, k)})
         IN  SubSeq(fields, 1, n) \o <<Field(k, v)>> \o SubSeq(fields, n + 1, Len(fields))

\* BTreeMap::from(pairs): the pairs inserted in the order given
RECURSIVE BTreeFrom(_)
BTreeFrom(pairs) ==
    IF pairs = <<>> THEN <<>>
    ELSE LET p == pairs[Len(pairs)]
         IN  BTreeInsert(BTreeFrom(SubSeq(pairs, 1, Len(pairs) - 1)), p.b, p.e[1])

\* inner.keys()
Keys(fields) == [i \in 1..Len(fields) |-> fields[i].b]

\* inner.values()
Values(fields) == [i \in 1..Len(fields) |-> fields[i].e[1]]

\* f32::is_nan, f64::is_nan on the big-endian bytes of a float node
IsNaN(v) ==
    \/ /\ v.t = "F32"
       /\ v.b[1] % 128 = 127
       /\ v.b[2] >= 128
       /\ (v.b[2] % 128 # 0 \/ v.b[3] # 0 \/ v.b[4] # 0)
    \/ /\ v.t = "F64"
       /\ v.b[1] % 128 = 127
       /\ v.b[2] >= 240
       /\ (v.b[2] % 16 # 0 \/ \E i \in 3..8 : v.b[i] # 0)

\* +0.0 or -0.0
IsFloatZero(v) == v.b[1] \in {0, 128} /\ \A i \in 2..Len(v.b) : v.b[i] = 0

\* #[derive(PartialEq)] on Value: floats compare as IEEE-754 numbers
RECURSIVE ValueEq(_, _)
ValueEq(v, w) ==
    /\ v.t = w.t
    /\ IF v.t \in {"F32", "F64"}
       THEN /\ ~IsNaN(v)
            /\ ~IsNaN(w)
            /\ (v.b = w.b \/ (IsFloatZero(v) /\ IsFloatZero(w)))
       ELSE /\ v.s = w.s
            /\ v.b = w.b
            /\ Len(v.e) = Len(w.e)
            /\ \A i \in 1..Len(v.e) : ValueEq(v.e[i], w.e[i])

(***************************************************************************)
(* value.rs: Encoder.  One step emits one item: a header and its payload.  *)
(* todo is the rest of the walk: "val" items are calls of encode_inner,    *)
(* "key" items calls of encode_symbol on a record key; the key item that   *)
(* ends a new layout carries the layout in reg, and the step that emits it *)
(* goes on to lines 196-197 (next(), records.insert).                      *)
(***************************************************************************)
Item(op, v, reg) == [op |-> op, v |-> v, reg |-> reg]

ValItems(vs) == [i \in 1..Len(vs) |-> Item("val", vs[i], <<>>)]

\* KeyItems that notes the layout with the first key instead of the last
KeyItems_first(keys) ==
    [i \in 1..Len(keys) |->
        Item("key", VSymbol(keys[i]), IF i = 1 THEN <<keys>> ELSE <<>>)]

KeyItems(keys) ==
    [i \in 1..Len(keys) |->
        Item("key", VSymbol(keys[i]), IF i = Len(keys) THEN <<keys>> ELSE <<>>)]

\* for (key, val) in inner.iter() { encode_inner(key); encode_inner(val) }
PairItems(pairs) ==
    [i \in 1..(2 * Len(pairs)) |->
        Item("val", pairs[(i + 1) \div 2].e[IF i % 2 = 1 THEN 1 ELSE 2], <<>>)]

\* a get that never finds
Lookup_miss(table, k) == <<>>

\* HashMap::get
Lookup(table, k) ==
    IF \E x \in table : x.k = k
    THEN <<(CHOOSE x \in table : x.k = k).i>>
    ELSE <<>>

\* an insert that is left out
Insert_none(table, k, i) == table

\* HashMap::insert
Insert(table, k, i) == {x \in table : x.k # k} \cup {[k |-> k, i |-> i]}

\* an encode that goes on with the table the Encoder of the call before left
EncodeStart_keep ==
    /\ epc = "idle"
    /\ todo' = <<Item("val", val, <<>>)>>
    /\ ecount' = 0
    /\ epc' = "run"
    /\ UNCHANGED <<ins, val, writer, hlog, symbols, records, next_free>>
    /\ UNCHANGED <<hvars, dvars, bvars>>

\* Encoder::encode
EncodeStart ==
    /\ epc = "idle"
    /\ todo' = <<Item("val", val, <<>>)>>
    /\ symbols' = {}
    /\ records' = {}
    /\ next_free' = 0
    /\ ecount' = 0
    /\ epc' = "run"
    /\ UNCHANGED <<ins, val, writer, hlog>>
    /\ UNCHANGED <<hvars, dvars, bvars>>

\* An entry of the history: the header h handed to Header::encode at output
\* offset at, for what (of: "Key" for a record key, else the variant of the
\* Value), with the text of a symbol or key and the keys of a record.
Emitted(h, it, at) ==
    [h |-> h,
     of |-> IF it.op = "key" THEN "Key" ELSE it.v.t,
     text |-> IF it.v.t = "Symbol" THEN it.v.b ELSE <<>>,
     keys |-> IF it.v.t = "Record" THEN Keys(it.v.e) ELSE <<>>,
     at |-> at]

\* Emit that counts the header only
Emit_header(h, payload, items) ==
    LET w == Header_encode(h)
    IN  /\ writer' = writer \o w.chunks \o payload
        /\ ecount' = ecount + w.n
        /\ hlog' = Append(hlog, Emitted(h, Head(todo), Len(Flatten(writer))))
        /\ todo' = items \o Tail(todo)
        /\ epc' = IF items \o Tail(todo) = <<>> THEN "done" ELSE "run"
        /\ UNCHANGED <<ins, val>>

\* what every step does with the header it hands to Header::encode, the
\* payload chunks it writes after it and the items it puts before the rest
Emit(h, payload, items) ==
    LET w == Header_encode(h)
    IN  /\ writer' = writer \o w.chunks \o payload
        /\ ecount' = ecount + w.n + Len(Flatten(payload))
        /\ hlog' = Append(hlog, Emitted(h, Head(todo), Len(Flatten(writer))))
        /\ todo' = items \o Tail(todo)
        /\ epc' = IF items \o Tail(todo) = <<>> THEN "done" ELSE "run"
        /\ UNCHANGED <<ins, val>>

\* Encoder::encode_inner: Null, Bool, F32, F64, Bytes, Int, Str
EncodeLeaf ==
    /\ epc = "run"
    /\ Head(todo).op = "val"
    /\ LET v == Head(todo).v
       IN  /\ v.t \in {"Null", "Bool", "F32", "F64", "Bytes", "Int", "Str"}
           /\ CASE v.t = "Null"  -> Emit(HFixed("Null"), <<>>, <<>>)
                [] v.t = "Bool"  -> Emit(HFixed(IF v.b = <<1>> THEN "True" ELSE "False"), <<>>, <<>>)
                [] v.t = "F32"   -> Emit(HFixed("F32"), <<v.b>>, <<>>)
                [] v.t = "F64"   -> Emit(HFixed("F64"), <<v.b>>, <<>>)
                [] v.t = "Bytes" -> Emit(HLen("Bin", NatToU64(Len(v.b))), <<v.b>>, <<>>)
                [] v.t = "Int"   -> Emit(Hdr("Int", v.s, v.b), <<>>, <<>>)
                [] v.t = "Str"   -> Emit(HLen("Str", NatToU64(Len(v.b))), <<v.b>>, <<>>)
    /\ UNCHANGED <<symbols, records, next_free>>
    /\ UNCHANGED <<hvars, dvars, bvars>>

\* Encoder::encode_symbol, for a Value::Symbol and for a record key; after
\* the last key of a new layout, encode_record lines 196-197
EncodeSymbol ==
    /\ epc = "run"
    /\ LET it == Head(todo)
           symbol == it.v.b
           found == Lookup(symbols, symbol)
           used == IF found = <<>> THEN 1 ELSE 0
       IN  /\ it.v.t = "Symbol"
           /\ IF found # <<>>
              THEN /\ Emit(HLen("Ref", NatToU64(found[1])), <<>>, <<>>)
                   /\ symbols' = symbols
              ELSE /\ symbols' = Insert(symbols, symbol, next_free)
                   /\ Emit(HLen("Sym", NatToU64(Len(symbol))), <<symbol>>, <<>>)
           /\ IF it.reg # <<>>
              THEN /\ records' = Insert(records, it.reg[1], next_free + used)
                   /\ next_free' = next_free + used + 1
              ELSE /\ records' = records
                   /\ next_free' = next_free + used
    /\ UNCHANGED <<hvars, dvars, bvars>>

\* Encoder::encode_inner: Array
EncodeArray ==
    /\ epc = "run"
    /\ Head(todo).op = "val"
    /\ Head(todo).v.t = "Array"
    /\ LET inner == Head(todo).v.e
       IN  Emit(HLen("Arr", NatToU64(Len(inner))), <<>>, ValItems(inner))
    /\ UNCHANGED <<symbols, records, next_free>>
    /\ UNCHANGED <<hvars, dvars, bvars>>

\* Encoder::encode_inner: Map
EncodeMap ==
    /\ epc = "run"
    /\ Head(todo).op = "val"
    /\ Head(todo).v.t = "Map"
    /\ LET inner == Head(todo).v.e
       IN  Emit(HLen("Map", NatToU64(Len(inner))), <<>>, PairItems(inner))
    /\ UNCHANGED <<symbols, records, next_free>>
    /\ UNCHANGED <<hvars, dvars, bvars>>

\* Encoder::encode_record: the header; the keys and the values are the
\* items that follow
EncodeRecord ==
    /\ epc = "run"
    /\ Head(todo).op = "val"
    /\ Head(todo).v.t = "Record"
    /\ LET inner == Head(todo).v.e
           found == Lookup(records, Keys(inner))
       IN  IF found # <<>>
           THEN /\ Emit(HLen("Ref", NatToU64(found[1])), <<>>, ValItems(Values(inner)))
                /\ UNCHANGED <<records, next_free>>
           ELSE /\ Emit(HLen("Rec", NatToU64(Len(inner))), <<>>,
                        KeyItems(Keys(inner)) \o ValItems(Values(inner)))
                /\ IF inner = <<>>
                   THEN /\ records' = Insert(records, <<>>, next_free)
                        /\ next_free' = next_free + 1
                   ELSE UNCHANGED <<records, next_free>>
    /\ UNCHANGED symbols
    /\ UNCHANGED <<hvars, dvars, bvars>>

(***************************************************************************)
(* value.rs: Decoder.  One step is the part of one decode_value call from  *)
(* decode_header to the point where it either returns, fails or calls      *)
(* decode_value for its first child; a return goes on through the callers  *)
(* that it completes (Deliver).  dstack holds the open calls, innermost    *)
(* last.                                                                   *)
(***************************************************************************)
\* enum Refable: Sym(text) has keys = <<text>>
Refable(r, keys) == [r |-> r, keys |-> keys]

\* An open decode_value call: k is "Arr", "Map" (elems: keys and values in
\* turn), "RecKeys" (keys read so far) or "RecVals" (keys: the layout, elems:
\* the values read so far); n is the count of the header.
Frame(k, n, elems, keys) == [k |-> k, n |-> n, elems |-> elems, keys |-> keys]

\* The result of Decoder::decode: Ok((v, n)), or Err of a DecoderError with
\* inner err (ref the index of InvalidRef, key the name of IllegalKey) and
\* offset at.
DOk_whole(v, n) ==
    [ok |-> TRUE, v |-> v, n |-> Len(buf), err |-> "none", ref |-> ZeroU64, key |-> "", at |-> 0]

DOk(v, n) ==
    [ok |-> TRUE, v |-> v, n |-> n, err |-> "none", ref |-> ZeroU64, key |-> "", at |-> 0]

DErr(e, ref, key, at) ==
    [ok |-> FALSE, v |-> VNull, n |-> 0, err |-> e, ref |-> ref, key |-> key, at |-> at]

DPending == DErr("pending", ZeroU64, "", 0)

\* std::str::from_utf8(b).is_ok(): the well-formed UTF-8 byte sequences
RECURSIVE IsUtf8(_)
IsUtf8(b) ==
    IF b = <<>> THEN TRUE
    ELSE LET n == Len(b)
             c(i) == IF i <= n THEN b[i] ELSE 0
             cont(i) == c(i) \in 128..191
             after(k) == IsUtf8(SubSeq(b, k + 1, n))
         IN  CASE c(1) \in 0..127 -> after(1)
               [] c(1) \in 194..223 -> cont(2) /\ after(2)
               [] c(1) = 224 -> c(2) \in 160..191 /\ cont(3) /\ after(3)
               [] c(1) \in 225..236 \cup {238, 239} -> cont(2) /\ cont(3) /\ after(3)
               [] c(1) = 237 -> c(2) \in 128..159 /\ cont(3) /\ after(3)
               [] c(1) = 240 -> c(2) \in 144..191 /\ cont(3) /\ cont(4) /\ after(4)
               [] c(1) \in 241..243 -> cont(2) /\ cont(3) /\ cont(4) /\ after(4)
               [] c(1) = 244 -> c(2) \in 128..143 /\ cont(3) /\ cont(4) /\ after(4)
               [] OTHER -> FALSE

\* Vec::try_reserve(v) on an empty Vec, elements of at least 16 bytes: the
\* outcomes a build and its allocator can produce.  More than isize::MAX
\* bytes is a capacity overflow; below 2^24 elements the allocator is taken
\* to succeed; in between it may do either.
try_reserve(v) ==
    IF v[1] >= 8 THEN {FALSE}
    ELSE IF IsSmallU64(v) THEN {TRUE}
    ELSE {TRUE, FALSE}

\* fields.insert(Cow::Borrowed(key), val) for the keys and values in turn
ZipFields(keys, vals) == [i \in 1..Len(keys) |-> Field(keys[i], vals[i])]

\* a key test that lets a string pass too
is_key_or_str(v) == v.t \in {"Symbol", "Str"}

\* the match on a decoded key: Value::Symbol(Cow::Borrowed(sym)), line 284
is_key(v) == v.t = "Symbol"

\* What the return of value v does to the open calls: [stack, syms] after
\* it; fin with the top-level value v when the outermost call returned; err
\* "IllegalKey" with key the typename when a key position got v.
Delivered(stack, syms, fin, v, err, key) ==
    [stack |-> stack, syms |-> syms, fin |-> fin, v |-> v, err |-> err, key |-> key]

RECURSIVE Deliver(_, _, _)
Deliver(stack, syms, v) ==
    IF stack = <<>> THEN Delivered(stack, syms, TRUE, v, "none", "")
    ELSE LET top == stack[Len(stack)]
             below == SubSeq(stack, 1, Len(stack) - 1)
             elems == Append(top.elems, v)
         IN  CASE top.k = "Arr" ->
                    IF NatToU64(Len(elems)) = top.n
                    THEN Deliver(below, syms, VArray(elems))
                    ELSE Delivered(Append(below, [top EXCEPT !.elems = elems]), syms,
                                   FALSE, v, "none", "")
               [] top.k = "Map" ->
                    IF Len(elems) % 2 = 0 /\ NatToU64(Len(elems) \div 2) = top.n
                    THEN Deliver(below, syms,
                                 VMap([i \in 1..(Len(elems) \div 2) |->
                                          Pair(elems[2 * i - 1], elems[2 * i])]))
                    ELSE Delivered(Append(below, [top EXCEPT !.elems = elems]), syms,
                                   FALSE, v, "none", "")
               [] top.k = "RecKeys" ->
                    IF ~is_key(v)
                    THEN Delivered(stack, syms, FALSE, v, "IllegalKey", typename(v))
                    ELSE LET keys == Append(top.keys, v.b)
                         IN  IF NatToU64(Len(keys)) = top.n
                             THEN Delivered(Append(below, Frame("RecVals", top.n, <<>>, keys)),
                                            Append(syms, Refable("Rec", keys)),
                                            FALSE, v, "none", "")
                             ELSE Delivered(Append(below, [top EXCEPT !.keys = keys]), syms,
                                            FALSE, v, "none", "")
               [] top.k = "RecVals" ->
                    IF Len(elems) = Len(top.keys)
                    THEN Deliver(below, syms, VRecord(BTreeFrom(ZipFields(top.keys, elems))))
                    ELSE Delivered(Append(below, [top EXCEPT !.elems = elems]), syms,
                                   FALSE, v, "none", "")

\* Decoder::decode, line 239
DecodeStart ==
    /\ dpc = "ready"
    /\ pos' = 0
    /\ dsymbols' = <<>>
    /\ dstack' = <<>>
    /\ dres' = DPending
    /\ dpc' = "run"
    /\ UNCHANGED buf
    /\ UNCHANGED <<hvars, evars, bvars>>

\* Decoder::decode_header: Header::decode(&self.buf[self.pos..])
NextHeader == Header_decode(SubSeq(buf, pos + 1, Len(buf)))

\* Decoder::decode_slice(len) at cursor p succeeds
slice_ok(p, len) == ~U64Lt(NatToU64(Len(buf) - p), len)

\* a failure that is reported where the failing decode_value began
Fail_at_start(p, e, ref, key) ==
    /\ pos' = p
    /\ dres' = DErr(e, ref, key, pos)
    /\ dpc' = "done"
    /\ UNCHANGED <<buf, dsymbols, dstack>>

\* the call fails: the error goes up through every caller to
\* Decoder::decode, which adds the cursor (line 240)
Fail(p, e, ref, key) ==
    /\ pos' = p
    /\ dres' = DErr(e, ref, key, p)
    /\ dpc' = "done"
    /\ UNCHANGED <<buf, dsymbols, dstack>>

\* the same when a caller fails on the value returned to it, the table
\* being syms by then
FailAfter(p, syms, e, key) ==
    /\ pos' = p
    /\ dsymbols' = syms
    /\ dres' = DErr(e, ZeroU64, key, p)
    /\ dpc' = "done"
    /\ UNCHANGED <<buf, dstack>>

\* the call returns v with the cursor at p and the table syms
Return(p, syms, v) ==
    LET d == Deliver(dstack, syms, v)
    IN  IF d.err # "none" THEN FailAfter(p, d.syms, d.err, d.key)
        ELSE /\ pos' = p
             /\ dsymbols' = d.syms
             /\ dstack' = d.stack
             /\ dres' = IF d.fin THEN DOk(d.v, p) ELSE dres
             /\ dpc' = IF d.fin THEN "done" ELSE "run"
             /\ UNCHANGED buf

\* the call goes on to decode its first child
Open(p, syms, frame) ==
    /\ pos' = p
    /\ dsymbols' = syms
    /\ dstack' = Append(dstack, frame)
    /\ UNCHANGED <<buf, dres, dpc>>

\* decode_header()? fails: line 245
DecodeHeaderFail ==
    /\ dpc = "run"
    /\ ~NextHeader.ok
    /\ Fail(pos, NextHeader.err, ZeroU64, "")
    /\ UNCHANGED <<hvars, evars, bvars>>

\* a decode_header that leaves the cursor before a one-byte value
DecodeFixed_stay ==
    /\ dpc = "run"
    /\ NextHeader.ok
    /\ NextHeader.v.h \in {"Null", "True", "False"}
    /\ Return(pos, dsymbols,
              CASE NextHeader.v.h = "Null" -> VNull
                [] NextHeader.v.h = "True" -> VBool(TRUE)
                [] NextHeader.v.h = "False" -> VBool(FALSE))
    /\ UNCHANGED <<hvars, evars, bvars>>

\* Header::Null, True, False: lines 247-249
DecodeFixed ==
    /\ dpc = "run"
    /\ NextHeader.ok
    /\ NextHeader.v.h \in {"Null", "True", "False"}
    /\ Return(pos + NextHeader.c, dsymbols,
              CASE NextHeader.v.h = "Null" -> VNull
                [] NextHeader.v.h = "True" -> VBool(TRUE)
                [] NextHeader.v.h = "False" -> VBool(FALSE))
    /\ UNCHANGED <<hvars, evars, bvars>>

\* Header::F32, F64: lines 250-251
DecodeFloat ==
    /\ dpc = "run"
    /\ NextHeader.ok
    /\ NextHeader.v.h \in {"F32", "F64"}
    /\ LET p == pos + NextHeader.c
           n == IF NextHeader.v.h = "F32" THEN 4 ELSE 8
       IN  IF ~slice_ok(p, NatToU64(n)) THEN Fail(p, "Eof", ZeroU64, "")
           ELSE Return(p + n, dsymbols,
                       Val(NextHeader.v.h, "Pos", SubSeq(buf, p + 1, p + n), <<>>))
    /\ UNCHANGED <<hvars, evars, bvars>>

\* Header::Bin: line 252
DecodeBin ==
    /\ dpc = "run"
    /\ NextHeader.ok
    /\ NextHeader.v.h = "Bin"
    /\ LET p == pos + NextHeader.c
           v == NextHeader.v.n
       IN  IF ~slice_ok(p, v) THEN Fail(p, "Eof", ZeroU64, "")
           ELSE Return(p + U64ToNat(v), dsymbols, VBytes(SubSeq(buf, p + 1, p + U64ToNat(v))))
    /\ UNCHANGED <<hvars, evars, bvars>>

\* Header::Int: line 253
DecodeInt ==
    /\ dpc = "run"
    /\ NextHeader.ok
    /\ NextHeader.v.h = "Int"
    /\ Return(pos + NextHeader.c, dsymbols, VInt(NextHeader.v.sign, NextHeader.v.n))
    /\ UNCHANGED <<hvars, evars, bvars>>

\* Header::Arr: lines 254-261
DecodeArr ==
    /\ dpc = "run"
    /\ NextHeader.ok
    /\ NextHeader.v.h = "Arr"
    /\ LET p == pos + NextHeader.c
           v == NextHeader.v.n
       IN  \E reserved \in try_reserve(v) :
              IF ~reserved THEN Fail(p, "Allocation", ZeroU64, "")
              ELSE IF v = ZeroU64 THEN Return(p, dsymbols, VArray(<<>>))
              ELSE Open(p, dsymbols, Frame("Arr", v, <<>>, <<>>))
    /\ UNCHANGED <<hvars, evars, bvars>>

\* Header::Map: lines 262-271
DecodeMap ==
    /\ dpc = "run"
    /\ NextHeader.ok
    /\ NextHeader.v.h = "Map"
    /\ LET p == pos + NextHeader.c
           v == NextHeader.v.n
       IN  \E reserved \in try_reserve(v) :
              IF ~reserved THEN Fail(p, "Allocation", ZeroU64, "")
              ELSE IF v = ZeroU64 THEN Return(p, dsymbols, VMap(<<>>))
              ELSE Open(p, dsymbols, Frame("Map", v, <<>>, <<>>))
    /\ UNCHANGED <<hvars, evars, bvars>>

\* a Str that is entered into the table as a Sym is
DecodeStr_interned ==
    /\ dpc = "run"
    /\ NextHeader.ok
    /\ NextHeader.v.h = "Str"
    /\ LET p == pos + NextHeader.c
           v == NextHeader.v.n
           q == p + U64ToNat(v)
       IN  IF ~slice_ok(p, v) THEN Fail(p, "Eof", ZeroU64, "")
           ELSE IF ~IsUtf8(SubSeq(buf, p + 1, q)) THEN Fail(q, "Utf8", ZeroU64, "")
           ELSE Return(q, Append(dsymbols, Refable("Sym", <<SubSeq(buf, p + 1, q)>>)),
                       VStr(SubSeq(buf, p + 1, q)))
    /\ UNCHANGED <<hvars, evars, bvars>>

\* Header::Str: line 272
DecodeStr ==
    /\ dpc = "run"
    /\ NextHeader.ok
    /\ NextHeader.v.h = "Str"
    /\ LET p == pos + NextHeader.c
           v == NextHeader.v.n
           q == p + U64ToNat(v)
       IN  IF ~slice_ok(p, v) THEN Fail(p, "Eof", ZeroU64, "")
           ELSE IF ~IsUtf8(SubSeq(buf, p + 1, q)) THEN Fail(q, "Utf8", ZeroU64, "")
           ELSE Return(q, dsymbols, VStr(SubSeq(buf, p + 1, q)))
    /\ UNCHANGED <<hvars, evars, bvars>>

\* Header::Sym: lines 273-277
DecodeSym ==
    /\ dpc = "run"
    /\ NextHeader.ok
    /\ NextHeader.v.h = "Sym"
    /\ LET p == pos + NextHeader.c
           v == NextHeader.v.n
           q == p + U64ToNat(v)
           sym == SubSeq(buf, p + 1, q)
       IN  IF ~slice_ok(p, v) THEN Fail(p, "Eof", ZeroU64, "")
           ELSE IF ~IsUtf8(sym) THEN Fail(q, "Utf8", ZeroU64, "")
           ELSE Return(q, Append(dsymbols, Refable("Sym", <<sym>>)), VSymbol(sym))
    /\ UNCHANGED <<hvars, evars, bvars>>

\* a Rec that enters a placeholder with its header and the layout after
\* its keys
DecodeRec_twice ==
    /\ dpc = "run"
    /\ NextHeader.ok
    /\ NextHeader.v.h = "Rec"
    /\ LET p == pos + NextHeader.c
           v == NextHeader.v.n
           held == Append(dsymbols, Refable("Rec", <<>>))
       IN  \E reserved \in try_reserve(v) :
              IF ~reserved THEN Fail(p, "Allocation", ZeroU64, "")
              ELSE IF v = ZeroU64
                   THEN Return(p, Append(held, Refable("Rec", <<>>)), VRecord(<<>>))
              ELSE Open(p, held, Frame("RecKeys", v, <<>>, <<>>))
    /\ UNCHANGED <<hvars, evars, bvars>>

\* Header::Rec: lines 278-294
DecodeRec ==
    /\ dpc = "run"
    /\ NextHeader.ok
    /\ NextHeader.v.h = "Rec"
    /\ LET p == pos + NextHeader.c
           v == NextHeader.v.n
       IN  \E reserved \in try_reserve(v) :
              IF ~reserved THEN Fail(p, "Allocation", ZeroU64, "")
              ELSE IF v = ZeroU64
                   THEN Return(p, Append(dsymbols, Refable("Rec", <<>>)), VRecord(<<>>))
              ELSE Open(p, dsymbols, Frame("RecKeys", v, <<>>, <<>>))
    /\ UNCHANGED <<hvars, evars, bvars>>

\* a get that counts the entries from one
symbols_get_from_one(syms, v) ==
    IF v # ZeroU64 /\ ~U64Lt(NatToU64(Len(syms)), v)
    THEN <<syms[U64ToNat(v)]>>
    ELSE <<>>

\* self.symbols.get(v): <<entry>> for Some(entry), <<>> for None
symbols_get(syms, v) ==
    IF U64Lt(v, NatToU64(Len(syms))) THEN <<syms[U64ToNat(v) + 1]>> ELSE <<>>

\* a Ref to a layout that reads the keys again before the values
DecodeRef_rekey ==
    /\ dpc = "run"
    /\ NextHeader.ok
    /\ NextHeader.v.h = "Ref"
    /\ LET p == pos + NextHeader.c
           v == NextHeader.v.n
       IN  IF symbols_get(dsymbols, v) = <<>> THEN Fail(p, "InvalidRef", v, "")
           ELSE LET entry == symbols_get(dsymbols, v)[1]
                IN  IF entry.r = "Sym" THEN Return(p, dsymbols, VSymbol(entry.keys[1]))
                    ELSE IF entry.keys = <<>> THEN Return(p, dsymbols, VRecord(<<>>))
                    ELSE Open(p, dsymbols,
                              Frame("RecKeys", NatToU64(Len(entry.keys)), <<>>, <<>>))
    /\ UNCHANGED <<hvars, evars, bvars>>

\* Header::Ref: lines 295-307
DecodeRef ==
    /\ dpc = "run"
    /\ NextHeader.ok
    /\ NextHeader.v.h = "Ref"
    /\ LET p == pos + NextHeader.c
           v == NextHeader.v.n
       IN  IF symbols_get(dsymbols, v) = <<>> THEN Fail(p, "InvalidRef", v, "")
           ELSE LET entry == symbols_get(dsymbols, v)[1]
                IN  IF entry.r = "Sym" THEN Return(p, dsymbols, VSymbol(entry.keys[1]))
                    ELSE IF entry.keys = <<>> THEN Return(p, dsymbols, VRecord(<<>>))
                    ELSE Open(p, dsymbols,
                              Frame("RecVals", NatToU64(Len(entry.keys)), <<>>, entry.keys))
    /\ UNCHANGED <<hvars, evars, bvars>>

(***************************************************************************)
(* The header codec driven as header.rs's tests drive it                   *)
(***************************************************************************)
\* All values 0..SmallMax are header values of the inputs.
SmallMax == 25

\* The longest tail of a raw buffer.
RawTailLen == 8

\* u64 inputs: the small values, and for every byte count k the numerals
\* with k significant bytes, top byte d, lower bytes all 0 or all 255.
U64Samples ==
    {NatToU64(n) : n \in 0..SmallMax}
    \cup {[i \in 1..8 |-> IF i < 9 - k THEN 0 ELSE IF i = 9 - k THEN d ELSE f] :
            k \in 1..8, d \in {1, 128, 255}, f \in {0, 254, 255}}
    \cup {U64Dec(MaxU64)}

HeaderInputs ==
    {HFixed(k) : k \in FixedKinds}
    \cup {HLen(k, n) : k \in LenKinds, n \in U64Samples}
    \cup {Hdr("Int", s, n) : s \in {"Pos", "Neg"}, n \in U64Samples}

\* Raw buffers: every lead byte, followed by a prefix of one of a few tails.
RawTails ==
    {[i \in 1..RawTailLen |-> 0],
     [i \in 1..RawTailLen |-> 255],
     [i \in 1..RawTailLen |-> IF i = RawTailLen THEN 254 ELSE 255],
     [i \in 1..RawTailLen |-> IF i = 8 THEN 2 ELSE 0],
     [i \in 1..RawTailLen |-> IF i = 1 THEN 1 ELSE 0]}

RawBuffers ==
    {<<l>> \o SubSeq(t, 1, n) : l \in Byte, t \in RawTails, n \in 0..RawTailLen}

Pending == Err("pending")

NoHeader == HFixed("Null")

\* The value a header carries on the wire (Int(Neg, m) carries m - 1).
WireValue(h) ==
    IF h.h = "Int" /\ h.sign = "Neg" /\ h.n # ZeroU64 THEN U64Dec(h.n) ELSE h.n

\* The wire form of h that carries its value in k trailing bytes, as
\* tests::inefficient_encoding writes it by hand.
LongForm(h, k) ==
    LET limit == sz_limit(code(h))
        offset == IF h.h = "Bin" THEN 5 ELSE 0
    IN  <<BitOr(Shl8(code_bits(h), shift(h)), k + limit + offset - 1)>>
        \o SubSeq(WireValue(h), 8 - k + 1, 8)

\* Option<&'static str>: None is <<>>, Some(v) is <<v>>
None == <<>>

Some(v) == <<v>>

\* Result<Layouts> of preserialize; name and variant are DuplicateLayout's
PRes(ok, err, name, variant) ==
    [ok |-> ok, err |-> err, name |-> name, variant |-> variant]

PPending == PRes(FALSE, "pending", "", None)

\* no Preserializer at work
POff ==
    /\ structs = {}
    /\ variants = {}
    /\ pframes = <<>>
    /\ pres = PPending
    /\ pseen = {}
    /\ ppc = "off"

\* A value of the serde data model (lib.rs:136-189), one record shape for
\* every node: t the kind, name the type's name (struct, enum), neg and b
\* the sign and the u64 numeral of an integer, or b the bytes of a bool
\* (<<1>>, <<0>>), float, char, str or byte buffer, the variant's name of
\* an enum value, <<1>> or <<0>> for Some or None; keys the field names;
\* items the children (of None: a value of the type, which tells the type).
DM(t, name, neg, b, keys, items) ==
    [t |-> t, name |-> name, neg |-> neg, b |-> b, keys |-> keys,
     items |-> items]

DUnit == DM("unit", "", FALSE, <<>>, <<>>, <<>>)

\* Serializer { symbols, output } (ser.rs:7-10); log is a history: the
\* headers encoded so far; err is "none" until a call fails
SerSt(syms, output, log, err) ==
    [symbols |-> syms, output |-> output, log |-> log, err |-> err]

\* the Result of from_bytes: Ok(v), or Err(err.at(at)); found is the name
\* in UnexpectedHeader or UnexpectedRefable
FB(ok, v, err, found, at) ==
    [ok |-> ok, v |-> v, err |-> err, found |-> found, at |-> at]

FBPending == FB(FALSE, DUnit, "pending", "", 0)

\* no Serializer and no Deserializer at work
SOff ==
    /\ sval = DUnit
    /\ schecks = FALSE
    /\ sser = SerSt(<<>>, <<>>, <<>>, "none")
    /\ sin = <<>>
    /\ sty = DUnit
    /\ sres = FBPending
    /\ spc = "off"

\* no earlier call
COff ==
    /\ sent = <<>>
    /\ seen = <<>>

BOff == POff /\ SOff /\ COff

\* no Encoder and no Decoder at work
EOff ==
    /\ ins = <<>>
    /\ val = VNull
    /\ todo = <<>>
    /\ writer = <<>>
    /\ next_free = 0
    /\ symbols = {}
    /\ records = {}
    /\ ecount = 0
    /\ hlog = <<>>
    /\ epc = "off"

DOff ==
    /\ buf = <<>>
    /\ pos = 0
    /\ dsymbols = <<>>
    /\ dstack = <<>>
    /\ dres = DPending
    /\ dpc = "off"

HInit ==
    /\ EOff
    /\ DOff
    /\ BOff
    /\ \/ hdr \in HeaderInputs /\ hlong = <<>> /\ hpc = "init"
       \/ hdr = NoHeader /\ hlong \in RawBuffers /\ hpc = "made"
    /\ hwire = <<>>
    /\ hres = Pending
    /\ hlres = Pending
    /\ hdst = <<>>

\* value.encode(buf)
HEncode ==
    /\ hpc = "init"
    /\ hwire' = Header_encode(hdr).chunks
    /\ hpc' = "encoded"
    /\ UNCHANGED <<hdr, hres, hlong, hlres, hdst>>
    /\ UNCHANGED <<evars, dvars, bvars>>

\* Header::decode(buf)
HDecode ==
    /\ hpc = "encoded"
    /\ hres' = Header_decode(Flatten(hwire))
    /\ hpc' = "decoded"
    /\ UNCHANGED <<hdr, hwire, hlong, hlres, hdst>>
    /\ UNCHANGED <<evars, dvars, bvars>>

\* the caller writes a form of hdr with k trailing bytes, k at least size
HMakeLong ==
    /\ hpc = "decoded"
    /\ hdr.h \notin FixedKinds
    /\ ~(hdr.h = "Int" /\ hdr.sign = "Neg" /\ hdr.n = ZeroU64)
    /\ \E k \in 1..8 :
          /\ \A i \in 1..(8 - k) : WireValue(hdr)[i] = 0
          /\ hlong' = LongForm(hdr, k)
    /\ hpc' = "made"
    /\ UNCHANGED <<hdr, hwire, hres, hlres, hdst>>
    /\ UNCHANGED <<evars, dvars, bvars>>

\* Header::decode(&src)
HDecodeLong ==
    /\ hpc = "made"
    /\ hlres' = Header_decode(hlong)
    /\ hpc' = "read"
    /\ UNCHANGED <<hdr, hwire, hres, hlong, hdst>>
    /\ UNCHANGED <<evars, dvars, bvars>>

\* decoded.encode(&mut dst)
HReencode ==
    /\ hpc = "read"
    /\ hlres.ok
    /\ hdst' = Header_encode(hlres.v).chunks
    /\ hpc' = "rewritten"
    /\ UNCHANGED <<hdr, hwire, hres, hlong, hlres>>
    /\ UNCHANGED <<evars, dvars, bvars>>

HNext == HEncode \/ HDecode \/ HMakeLong \/ HDecodeLong \/ HReencode

SpecHeader == HInit /\ [][HNext]_vars

(***************************************************************************)
(* The value codec driven as value.rs's tests drive it: a Value is encoded *)
(* into an empty Vec and the Vec, or the Vec and bytes after it, decoded;  *)
(* or a buffer written by hand is decoded.                                 *)
(***************************************************************************)
\* The longest Array among the values.
MaxLen == 3

\* The longest hand-written buffer over BufBytes.
MaxBuf == 4

SeqsUpTo(S, n) == UNION {[1..k -> S] : k \in 0..n}

TA == <<97>>

TB == <<98>>

TKey == <<107, 101, 121>>

TValue == <<118, 97, 108, 117, 101>>

\* "Üben", with a two-byte character
TUeben == <<195, 156, 98, 101, 110>>

\* 25 bytes: longer than the headers' inline limit
TLong == [i \in 1..25 |-> 96 + i]

RecA(v) == VRecord(<<Field(TA, v)>>)

RecAB(v, w) == VRecord(<<Field(TA, v), Field(TB, w)>>)

HOff ==
    /\ hdr = NoHeader
    /\ hwire = <<>>
    /\ hres = Pending
    /\ hlong = <<>>
    /\ hlres = Pending
    /\ hdst = <<>>
    /\ hpc = "off"

\* the elements of the arrays and the values of map and record entries
Items ==
    {VNull, VInt("Neg", NatToU64(1)), VStr(TA), VSymbol(TA), VSymbol(TB),
     VRecord(<<>>), RecA(VNull), RecA(VSymbol(TA)), RecA(RecA(VNull)),
     RecAB(VSymbol(TB), VNull), VArray(<<VSymbol(TB)>>),
     VMap(<<Pair(VSymbol(TA), RecA(VStr(TB)))>>)}

Leaves ==
    {VNull, VBool(TRUE), VBool(FALSE),
     VF32(<<64, 73, 15, 219>>), VF32(<<128, 0, 0, 0>>), VF32(<<127, 192, 0, 0>>),
     VF64(<<64, 9, 33, 251, 84, 68, 45, 24>>), VF64(<<255, 248, 0, 0, 0, 0, 0, 1>>),
     VBytes(<<>>), VBytes(<<1, 2, 3, 4, 255>>), VBytes(TLong),
     VStr(<<>>), VStr(TUeben), VStr(TLong), VSymbol(<<>>), VSymbol(TLong)}
    \cup {VInt(s, n) : s \in {"Pos", "Neg"},
                       n \in {ZeroU64, NatToU64(1), NatToU64(8), NatToU64(255), NatToU64(256),
                              U64Dec(MaxU64), MaxU64}}

\* the elements of the longer arrays
FewItems == {VNull, VSymbol(TA), VSymbol(TB), RecA(VNull), RecA(VSymbol(TA))}

MapValues ==
    {VMap(<<>>)}
    \cup {VMap(<<Pair(k, v)>>) : k \in {VNull, VStr(TA), VSymbol(TA), RecA(VNull)}, v \in Items}
    \cup {VMap(<<Pair(VSymbol(TA), v), Pair(VSymbol(TA), w)>>) : v \in FewItems, w \in FewItems}

ArrayValues ==
    {VArray(e) : e \in SeqsUpTo(Items, 2)}
    \cup {VArray(e) : e \in SeqsUpTo(FewItems, MaxLen)}
    \cup {VArray(<<VInt("Neg", ZeroU64)>>), VArray(<<VSymbol(TA), VF32(<<127, 192, 0, 0>>)>>)}

\* the entries a caller inserts into the BTreeMap of a Record
Entries ==
    {Field(k, v) : k \in {TA, TB, TKey},
                   v \in {VNull, VStr(TValue), VSymbol(TA), VSymbol(TKey), RecA(VNull),
                          RecAB(VNull, VNull), VArray(<<RecA(VSymbol(TB)), RecA(VNull)>>)}}

\* trailing bytes after the encoded value in the buffer
Trails == {<<>>, <<0>>, <<224, 255>>}

\* the bytes of the hand-written buffers
BufBytes == {0, 65, 97, 129, 160, 161, 224, 225, 255}

Buffers ==
    SeqsUpTo(BufBytes, MaxBuf)
    \cup {<<224>>,
          <<161, 99, 107, 101, 121, 97, 120, 161, 224, 0>>,
          <<66, 195, 40>>,
          <<161, 160>>,
          <<130, 97, 97, 225>>,
          <<130, 97, 97, 161, 224, 0>>,
          <<130, 160, 161, 224>>,
          <<130, 161, 97, 97, 0, 161, 225, 0>>,
          <<161, 192>>,
          <<161, 193, 0, 0>>,
          <<161, 5, 0>>,
          <<161, 128>>,
          <<161, 3, 0, 0, 0, 0>>,
          <<161, 96, 0>>,
          <<162, 96, 224, 0, 0>>,
          <<162, 96, 128>>,
          <<130, 162, 97, 97, 97, 98, 0, 1, 226, 65, 97, 0>>,
          <<130, 162, 97, 97, 224, 0, 0, 225, 65, 97, 1>>,
          <<130, 97, 97, 224>>}
    \cup RawBuffers
    \cup {<<l>> \o t : l \in {127, 255}, t \in U64Samples}

Init ==
    /\ HOff
    /\ BOff
    /\ \/ /\ \/ ins = <<>> /\ val \in Leaves \cup ArrayValues \cup MapValues
             \/ ins \in SeqsUpTo(Entries, 2) /\ val = VRecord(BTreeFrom(ins))
          /\ todo = <<>>
          /\ writer = <<>>
          /\ next_free = 0
          /\ symbols = {}
          /\ records = {}
          /\ ecount = 0
          /\ hlog = <<>>
          /\ epc = "idle"
          /\ buf = <<>>
          /\ dpc = "idle"
       \/ /\ EOff
          /\ buf \in Buffers
          /\ dpc = "ready"
    /\ pos = 0
    /\ dsymbols = <<>>
    /\ dstack = <<>>
    /\ dres = DPending

\* the caller hands the Vec, or the Vec and bytes after it, to the decoder
Hand ==
    /\ epc = "done"
    /\ dpc = "idle"
    /\ \E t \in Trails : buf' = Flatten(writer) \o t
    /\ dpc' = "ready"
    /\ UNCHANGED <<pos, dsymbols, dstack, dres>>
    /\ UNCHANGED <<hvars, evars, bvars>>

Next ==
    \/ EncodeStart \/ EncodeLeaf \/ EncodeSymbol \/ EncodeArray \/ EncodeMap
    \/ EncodeRecord \/ Hand
    \/ DecodeStart \/ DecodeHeaderFail \/ DecodeFixed \/ DecodeFloat \/ DecodeBin
    \/ DecodeInt \/ DecodeArr \/ DecodeMap \/ DecodeStr \/ DecodeSym \/ DecodeRec
    \/ DecodeRef

Spec == Init /\ [][Next]_vars

\* the steps of Decoder::decode
DecodeNext ==
    \/ DecodeStart \/ DecodeHeaderFail \/ DecodeFixed \/ DecodeFloat \/ DecodeBin
    \/ DecodeInt \/ DecodeArr \/ DecodeMap \/ DecodeStr \/ DecodeSym \/ DecodeRec
    \/ DecodeRef

\* a caller with no encoder, before it has a buffer
LInit ==
    /\ HOff
    /\ BOff
    /\ EOff
    /\ buf = <<>>
    /\ dpc = "idle"
    /\ pos = 0
    /\ dsymbols = <<>>
    /\ dstack = <<>>
    /\ dres = DPending

\* it gets one and calls Decoder::decode
Receive ==
    /\ dpc = "idle"
    /\ epc = "off"
    /\ buf' \in Buffers
    /\ dpc' = "ready"
    /\ UNCHANGED <<pos, dsymbols, dstack, dres>>
    /\ UNCHANGED <<hvars, evars, bvars>>

LNext == Receive \/ DecodeNext

\* Decoder::decode is one call that neither waits nor yields: a step of it
\* that can be taken is taken
SpecLive == LInit /\ [][LNext]_vars /\ WF_vars(DecodeNext)


(***************************************************************************)
(* Properties of the header codec, checked under SpecHeader.               *)
(***************************************************************************)
NegZero == Hdr("Int", "Neg", ZeroU64)

PosZero == Hdr("Int", "Pos", ZeroU64)

\* C2 (header round-trip): for every header h other than Int(Neg, 0),
\* decoding the bytes that encoding h wrote succeeds and yields h itself.
C2_HeaderRoundTrip ==
    (hres # Pending /\ hdr # NegZero) => (hres.ok /\ hres.v = hdr)

C2_Witness ==
    /\ hdr = Hdr("Int", "Neg", MaxU64)
    /\ Len(Flatten(hwire)) = 9
    /\ hres.ok
    /\ hres.v = hdr

\* C3 (negative zero): Int(Neg, 0) encodes to the very bytes of Int(Pos, 0),
\* the single byte 0x20, and decodes back as Int(Pos, 0); no byte sequence
\* at all decodes to Int(Neg, 0).
C3_NegativeZero ==
    /\ (hdr \in {NegZero, PosZero} /\ hpc # "init") => Flatten(hwire) = <<32>>
    /\ (hdr \in {NegZero, PosZero} /\ hres # Pending)
          => (hres.ok /\ hres.v = PosZero)
    /\ hres.ok => hres.v # NegZero
    /\ hlres.ok => hlres.v # NegZero

C3_Witness ==
    /\ hdr = NegZero
    /\ Flatten(hwire) = <<32>>
    /\ hres.ok
    /\ hres.v = PosZero

\* C4 (over-long tolerance): a header whose value is written with more
\* trailing bytes than needed (up to all eight, leading zeros) decodes to
\* the same header as its shortest form, consuming all of the longer form.
C4_OverLong ==
    (hwire # <<>> /\ hlres # Pending)
        => (hlres.ok /\ hlres.v = hres.v /\ hlres.c = Len(hlong))

C4_Witness ==
    /\ hdr = HLen("Arr", NatToU64(2))
    /\ hlong = <<159, 0, 0, 0, 0, 0, 0, 0, 2>>
    /\ hlres.ok
    /\ hlres.v = hdr
    /\ hlres.c = 9

\* the least number of big-endian bytes that hold i
MinBytes(i) ==
    CHOOSE k \in 1..8 :
        /\ \A j \in 1..(8 - k) : i[j] = 0
        /\ (k = 1 \/ i[9 - k] # 0)

\* the inline limits as the format states them
InlineLimit(h) == IF h.h = "Int" THEN 8 ELSE IF h.h = "Bin" THEN 19 ELSE 24

\* C5 (shortest encoding): no byte string that decodes to a header is
\* shorter than what the encoder writes for it; a value below the inline
\* limit (24; 19 for Bin; 8 for Int) sits in the lead byte, any other value
\* follows the lead byte in the fewest big-endian bytes that hold it.
C5_Shortest ==
    /\ hpc = "rewritten" => Len(Flatten(hdst)) <= hlres.c
    /\ hwire # <<>> =>
          LET w == Flatten(hwire)
              i == WireValue(hdr)
          IN  IF hdr.h \in FixedKinds THEN Len(w) = 1
              ELSE IF U64Lt(i, NatToU64(InlineLimit(hdr)))
              THEN /\ Len(w) = 1
                   /\ w[1] % (2 ^ shift(hdr))
                        = i[8] + (IF hdr.h = "Bin" THEN 5 ELSE 0)
              ELSE /\ Len(w) = 1 + MinBytes(i)
                   /\ Tail(w) = SubSeq(i, 9 - MinBytes(i), 8)

C5_Witness ==
    /\ hpc = "rewritten"
    /\ hdr = HLen("Bin", NatToU64(18))
    /\ Len(hlong) = 9
    /\ hlres.ok
    /\ hlres.v = hdr
    /\ Flatten(hdst) = <<23>>

(***************************************************************************)
(* Properties of the value codec, checked under Spec.                      *)
(***************************************************************************)
RECURSIVE Clean(_)
\* neither Int(Neg, 0) nor a NaN float anywhere in v
Clean(v) ==
    /\ ~(v.t = "Int" /\ v.s = "Neg" /\ v.b = ZeroU64)
    /\ ~IsNaN(v)
    /\ \A i \in 1..Len(v.e) : Clean(v.e[i])

\* C1 (value round-trip): a value that holds neither Int(Neg, 0) nor a NaN
\* float, encoded by a fresh Encoder and decoded by a fresh Decoder, comes
\* back equal to itself, whatever symbols and layouts it repeats.
C1_RoundTrip ==
    (epc = "done" /\ dpc = "done" /\ Clean(val))
        => (dres.ok /\ ValueEq(dres.v, val))

C1_Witness ==
    /\ epc = "done"
    /\ dpc = "done"
    /\ val = VArray(<<RecA(VSymbol(TA)), VSymbol(TA), RecA(VSymbol(TA))>>)
    /\ buf = Flatten(writer)
    /\ dres.ok
    /\ ValueEq(dres.v, val)

\* the headers written for symbols and keys
SymEntries == {j \in 1..Len(hlog) : hlog[j].of \in {"Symbol", "Key"}}

\* the headers written for records
RecEntries == {j \in 1..Len(hlog) : hlog[j].of = "Record"}

\* the number of keys that the Rec header at r announces
KeyCount(r) == U64ToNat(hlog[r].h.n)

\* the table index of the symbol whose Sym header is at j: the entries made
\* before it are the earlier Sym headers and the layouts completed earlier
SymIndex(j) ==
    Cardinality({i \in 1..(j - 1) : hlog[i].h.h = "Sym"})
    + Cardinality({r \in 1..(j - 1) : hlog[r].h.h = "Rec" /\ r + KeyCount(r) < j})

\* the table index of the layout whose Rec header is at r: it is entered
\* after its last key
RecIndex(r) ==
    Cardinality({i \in 1..(r + KeyCount(r)) : hlog[i].h.h = "Sym"})
    + Cardinality({i \in 1..(r - 1) : hlog[i].h.h = "Rec"})

\* the bytes written for the header at j and what follows it up to the
\* next header
Written(j) ==
    SubSeq(Flatten(writer), hlog[j].at + 1,
           IF j < Len(hlog) THEN hlog[j + 1].at ELSE Len(Flatten(writer)))

Least(S) == CHOOSE x \in S : \A y \in S : x <= y

\* C6 (symbol interning): the first time the encoder writes a symbol text
\* it writes a Sym header and the text's bytes; every later time it writes
\* only Ref(i), i the table index the first one got.  An array of k equal
\* symbols is written with one Sym header and k - 1 Ref headers.
C6_SymbolInterning ==
    /\ \A j \in SymEntries :
          LET t == hlog[j].text
              earlier == {i \in SymEntries : i < j /\ hlog[i].text = t}
          IN  IF earlier = {}
              THEN /\ hlog[j].h = HLen("Sym", NatToU64(Len(t)))
                   /\ Written(j) = Flatten(Header_encode(hlog[j].h).chunks) \o t
              ELSE /\ hlog[j].h = HLen("Ref", NatToU64(SymIndex(Least(earlier))))
                   /\ Len(Written(j)) = 1
    /\ (/\ epc = "done"
        /\ val.t = "Array"
        /\ val.e # <<>>
        /\ \A i \in 1..Len(val.e) : val.e[i].t = "Symbol" /\ val.e[i] = val.e[1])
          => /\ Cardinality({j \in 1..Len(hlog) : hlog[j].h.h = "Sym"}) = 1
             /\ Cardinality({j \in 1..Len(hlog) : hlog[j].h.h = "Ref"})
                   = Len(val.e) - 1

C6_Witness ==
    /\ epc = "done"
    /\ val = VArray(<<VSymbol(TA), VSymbol(TA), VSymbol(TA)>>)
    /\ Flatten(writer) = <<131, 97, 97, 224, 224>>

\* C7 (layout sharing): the first record of a key set is written as Rec(n)
\* and its n keys; every later record of that key set as Ref(i), i the
\* table index of the layout, followed by its values only.  Of k records
\* of one layout in an array, one gets the Rec header, k - 1 a Ref header.
C7_LayoutSharing ==
    /\ \A j \in RecEntries :
          LET K == hlog[j].keys
              earlier == {i \in RecEntries : i < j /\ hlog[i].keys = K}
          IN  IF earlier = {}
              THEN /\ hlog[j].h = HLen("Rec", NatToU64(Len(K)))
                   /\ \A i \in 1..Len(K) :
                         j + i <= Len(hlog) =>
                            hlog[j + i].of = "Key" /\ hlog[j + i].text = K[i]
              ELSE /\ hlog[j].h = HLen("Ref", NatToU64(RecIndex(Least(earlier))))
                   /\ j < Len(hlog) => hlog[j + 1].of # "Key"
    /\ \A j \in 1..Len(hlog) :
          hlog[j].of = "Key" =>
             \E r \in RecEntries :
                hlog[r].h.h = "Rec" /\ r < j /\ j <= r + KeyCount(r)
    /\ (/\ epc = "done"
        /\ val.t = "Array"
        /\ val.e # <<>>
        /\ \A i \in 1..Len(val.e) :
              /\ val.e[i].t = "Record"
              /\ Keys(val.e[i].e) = Keys(val.e[1].e)
              /\ \A f \in 1..Len(val.e[i].e) : val.e[i].e[f].e[1].t # "Record")
          => /\ Cardinality({j \in RecEntries : hlog[j].h.h = "Rec"}) = 1
             /\ Cardinality({j \in RecEntries : hlog[j].h.h = "Ref"})
                   = Len(val.e) - 1

C7_Witness ==
    /\ epc = "done"
    /\ val = VArray(<<RecA(VNull), RecA(VSymbol(TA)), RecA(VNull)>>)
    /\ Flatten(writer) = <<131, 161, 97, 97, 0, 225, 224, 225, 0>>

\* the keys inserted into the top-level record
InsertedKeys == {ins[i].b : i \in 1..Len(ins)}

\* the value that the last insertion under key k left in the record
LastInserted(k) ==
    ins[CHOOSE i \in 1..Len(ins) :
           ins[i].b = k /\ \A j \in (i + 1)..Len(ins) : ins[j].b # k].e[1]

\* the step that writes the header of a record whose layout is new: the
\* header is Rec(n), the next n items to write are the keys in ascending
\* order, the n after them the values of these keys in the same order;
\* for the top-level record these are the keys and values inserted.
RecordStep ==
    (/\ epc = "run"
     /\ Head(todo).op = "val"
     /\ Head(todo).v.t = "Record"
     /\ \A r \in RecEntries : hlog[r].keys # Keys(Head(todo).v.e))
        => LET rec == Head(todo).v.e
               n == Len(rec)
           IN  /\ hlog' = Append(hlog, hlog'[Len(hlog) + 1])
               /\ hlog'[Len(hlog) + 1].h = HLen("Rec", NatToU64(n))
               /\ Len(todo') >= 2 * n
               /\ \A i \in 1..n :
                     /\ todo'[i].op = "key"
                     /\ todo'[i].v.t = "Symbol"
                     /\ todo'[n + i].op = "val"
                     /\ \E f \in 1..n : /\ rec[f].b = todo'[i].v.b
                                        /\ rec[f].e[1] = todo'[n + i].v
               /\ \A i \in 1..(n - 1) : BytesLt(todo'[i].v.b, todo'[i + 1].v.b)
               /\ hlog = <<>> =>
                     /\ n = Cardinality(InsertedKeys)
                     /\ \A i \in 1..n :
                           /\ todo'[i].v.b \in InsertedKeys
                           /\ todo'[n + i].v = LastInserted(todo'[i].v.b)

\* C8 (record wire layout): a record with a new layout is written as
\* Rec(n), its n keys in ascending order whatever the order of insertion,
\* then its n values in the order of their keys.  The empty record is the
\* byte 0xA0; {"key": Str("value")} is A1 63 6B 65 79 45 76 61 6C 75 65.
C8_RecordLayout ==
    /\ [][RecordStep]_vars
    /\ []((epc = "done" /\ val = VRecord(<<>>)) => Flatten(writer) = <<160>>)
    /\ []((epc = "done" /\ InsertedKeys = {TKey} /\ LastInserted(TKey) = VStr(TValue))
            => Flatten(writer)
                 = <<161, 99, 107, 101, 121, 69, 118, 97, 108, 117, 101>>)

C8_Witness ==
    /\ epc = "done"
    /\ ins = <<Field(TB, VStr(TValue)), Field(TA, VNull)>>
    /\ Flatten(writer) = <<162, 97, 97, 97, 98, 0, 69, 118, 97, 108, 117, 101>>

\* C9 (byte counts agree): the encoder returns the number of bytes it
\* wrote; the decoder, given these bytes and any bytes after them, returns
\* that number as the count consumed, and it neither reads the bytes after
\* nor fails on them.
C9_ByteCounts ==
    /\ epc \in {"run", "done"} => ecount = Len(Flatten(writer))
    /\ (epc = "done" /\ dpc = "done") => (dres.ok /\ dres.n = ecount)
    /\ (epc = "done" /\ dpc = "run") =>
          (pos < ecount /\ (NextHeader.ok => pos + NextHeader.c <= ecount))
    /\ \A j \in 1..Len(hlog) :
          hlog[j].at < (IF j < Len(hlog) THEN hlog[j + 1].at ELSE ecount)

C9_Witness ==
    /\ epc = "done"
    /\ dpc = "done"
    /\ val = VRecord(<<Field(TKey, VStr(TValue))>>)
    /\ buf = Flatten(writer) \o <<224, 255>>
    /\ dres.ok
    /\ dres.n = 11

\* the step that reads the header Ref(i) when the table has i entries or
\* fewer: the decode ends with InvalidRef(i) at the offset after the header
UnknownRefStep ==
    (/\ dpc = "run"
     /\ NextHeader.ok
     /\ NextHeader.v.h = "Ref"
     /\ ~U64Lt(NextHeader.v.n, NatToU64(Len(dsymbols))))
        => /\ dpc' = "done"
           /\ dres' = DErr("InvalidRef", NextHeader.v.n, "", pos + NextHeader.c)

\* C10 (unknown reference): wherever in the input the decoder reads Ref(i)
\* with i at or beyond the current size of its table, it fails with
\* InvalidRef(i); the single byte 0xE0 fails with InvalidRef(0) at offset 1.
C10_UnknownRef ==
    /\ [][UnknownRefStep]_vars
    /\ []((buf = <<224>> /\ dpc = "done")
            => dres = DErr("InvalidRef", ZeroU64, "", 1))

C10_Witness ==
    /\ buf = <<130, 97, 97, 225>>
    /\ dpc = "done"
    /\ dres = DErr("InvalidRef", NatToU64(1), "", 4)

\* the next item read is in a key position of a Rec header
TopKey == dstack # <<>> /\ dstack[Len(dstack)].k = "RecKeys"

\* the step ends the decode with IllegalKey(name)
Illegal(name) ==
    /\ dpc' = "done"
    /\ ~dres'.ok
    /\ dres'.err = "IllegalKey"
    /\ dres'.key = name

\* the step takes text as the next key of the innermost Rec header
Accepted(text) ==
    LET d == Len(dstack)
        keys == Append(dstack[d].keys, text)
    IN  /\ dpc' = "run"
        /\ dres' = dres
        /\ Len(dstack') = d
        /\ dstack'[d].keys = keys
        /\ dstack'[d].k = IF NatToU64(Len(keys)) = dstack[d].n THEN "RecVals" ELSE "RecKeys"

\* the step that reads an item without children in a key position
KeyItemStep ==
    (dpc = "run" /\ TopKey /\ NextHeader.ok) =>
        LET h == NextHeader.v
            p == pos + NextHeader.c
            has(n) == ~U64Lt(NatToU64(Len(buf) - p), n)
            payload == SubSeq(buf, p + 1, p + U64ToNat(h.n))
            known == U64Lt(h.n, NatToU64(Len(dsymbols)))
            entry == dsymbols[U64ToNat(h.n) + 1]
        IN  /\ h.h = "Null" => Illegal("null")
            /\ h.h \in {"True", "False"} => Illegal("bool")
            /\ h.h = "Int" => Illegal("integer")
            /\ (h.h = "F32" /\ Len(buf) - p >= 4) => Illegal("f32")
            /\ (h.h = "F64" /\ Len(buf) - p >= 8) => Illegal("f64")
            /\ (h.h = "Bin" /\ has(h.n)) => Illegal("bytes")
            /\ (h.h = "Str" /\ has(h.n) /\ IsUtf8(payload)) => Illegal("string")
            /\ (h.h = "Sym" /\ has(h.n) /\ IsUtf8(payload)) => Accepted(payload)
            /\ (h.h = "Ref" /\ known /\ entry.r = "Sym") => Accepted(entry.keys[1])
            /\ (h.h = "Ref" /\ known /\ entry.r = "Rec" /\ entry.keys = <<>>)
                  => Illegal("record")
            /\ (h.h = "Arr" /\ h.n = ZeroU64) => Illegal("array")
            /\ (h.h = "Map" /\ h.n = ZeroU64) => Illegal("map")
            /\ (h.h = "Rec" /\ h.n = ZeroU64) => Illegal("record")

\* a step while an array, map or record is open in a key position: the
\* item never returns as a key, and an IllegalKey names its type
KeyOpenStep ==
    \A d \in 1..(Len(dstack) - 1) :
        (/\ dpc = "run"
         /\ dstack[d].k = "RecKeys"
         /\ \A e \in (d + 1)..Len(dstack) : dstack[e].k # "RecKeys")
            => /\ ~(dpc' = "done" /\ dres'.ok)
               /\ dpc' = "run" => (Len(dstack') > d /\ dstack'[d] = dstack[d])
               /\ (dpc' = "done" /\ dres'.err = "IllegalKey")
                     => dres'.key = (CASE dstack[d + 1].k = "Arr" -> "array"
                                       [] dstack[d + 1].k = "Map" -> "map"
                                       [] OTHER -> "record")

\* C11 as stated: a Str header in a key position is accepted as the key,
\* so that no decode ends with IllegalKey("string").
C11_StrKeyAccepted ==
    ~(dpc = "done" /\ dres.err = "IllegalKey" /\ dres.key = "string")

\* C11 (record key rule), amended: in a key position the decoder accepts a
\* Sym header or a Ref resolving to a symbol entry, and nothing else; every
\* other value decoded there, a Str included, ends the decode with
\* IllegalKey carrying the type name of that value.
C11_KeyRule ==
    /\ [][KeyItemStep]_vars
    /\ [][KeyOpenStep]_vars
    /\ []((buf = <<161, 65, 97, 0>> /\ dpc = "done")
            => dres = DErr("IllegalKey", ZeroU64, "string", 3))
    /\ []((buf = <<161, 129, 0>> /\ dpc = "done")
            => dres = DErr("IllegalKey", ZeroU64, "array", 3))
    /\ []((buf = <<161, 193, 0, 0>> /\ dpc = "done")
            => dres = DErr("IllegalKey", ZeroU64, "map", 4))
    /\ []((buf = <<130, 161, 97, 97, 0, 161, 225, 0>> /\ dpc = "done")
            => dres = DErr("IllegalKey", ZeroU64, "record", 8))
    /\ []((buf = <<130, 97, 97, 161, 224, 0>> /\ dpc = "done")
            => (dres.ok /\ dres.v = VArray(<<VSymbol(TA), RecA(VNull)>>)))

C11_Witness ==
    /\ buf = <<161, 65, 97, 0>>
    /\ dpc = "done"
    /\ dres = DErr("IllegalKey", ZeroU64, "string", 3)

\* the variants of DecodeError that value.rs and header.rs return
DecodeErrors == {"Eof", "Utf8", "IllegalKey", "InvalidRef", "Length", "Allocation"}

\* at every point the decoder has returned, or has its next step to take
\* inside the buffer, and no panic has happened
NoPanicState ==
    /\ dres.err # "Panic"
    /\ pos <= Len(buf)
    /\ dpc = "run" =>
          /\ dres = DPending
          /\ NextHeader.err # "Panic"
          /\ NextHeader.ok => NextHeader.v.h \in FixedKinds \cup LenKinds \cup {"Int"}
    /\ dpc = "done" =>
          \/ dres.ok /\ dres.n <= Len(buf)
          \/ ~dres.ok /\ dres.err \in DecodeErrors

\* every step of the decoder ends the decode or moves the cursor forward
ProgressStep == dpc = "run" => (dpc' = "done" \/ (dpc' = "run" /\ pos' > pos))

\* C12 (no panic on short hostile input): on every buffer, those of 1 to 9
\* bytes with lengths and counts up to 2^64-1 among them, the decoder goes
\* forward step by step within the buffer until it returns Ok(value,
\* consumed) or one of its errors; it never panics.
C12_NoPanic == []NoPanicState /\ [][ProgressStep]_vars

C12_Witness ==
    /\ buf = <<159>> \o MaxU64
    /\ dpc = "done"
    /\ dres = DErr("Allocation", ZeroU64, "", 9)

\* the number of length bytes that a lead byte announces
Announced(lead) ==
    IF lead \div 32 = 1
    THEN (IF lead % 16 >= 8 THEN (lead % 16) - 7 ELSE 0)
    ELSE (IF lead % 32 >= 24 THEN (lead % 32) - 23 ELSE 0)

\* the step ends the decode with Eof, the cursor inside the buffer
EndsEof ==
    /\ dpc' = "done"
    /\ ~dres'.ok
    /\ dres'.err = "Eof"
    /\ pos' <= Len(buf)
    /\ dres'.at = pos'

\* the step of the decoder at a place where the buffer is too short
EofStep ==
    dpc = "run" =>
        LET rest == Len(buf) - pos
            h == NextHeader.v
            p == pos + NextHeader.c
        IN  /\ rest = 0 => EndsEof
            /\ (rest >= 1 /\ rest - 1 < Announced(buf[pos + 1])) => EndsEof
            /\ (/\ NextHeader.ok
                /\ h.h \in {"Str", "Sym", "Bin"}
                /\ U64Lt(NatToU64(Len(buf) - p), h.n)) => EndsEof
            /\ (NextHeader.ok /\ h.h = "F32" /\ Len(buf) - p < 4) => EndsEof
            /\ (NextHeader.ok /\ h.h = "F64" /\ Len(buf) - p < 8) => EndsEof

\* C13 (end of buffer): the decode fails with Eof, and reads nothing past
\* the end, when the buffer is empty where a header is expected, holds
\* fewer than the 1..8 length bytes that the lead byte announces, or holds
\* fewer bytes than the length of a Str, Sym or Bin payload or the 4 or 8
\* bytes of an F32 or F64.
C13_Eof == [][EofStep]_vars

C13_Witness ==
    /\ buf = <<66, 0>>
    /\ dpc = "done"
    /\ dres = DErr("Eof", ZeroU64, "", 1)

\* the magnitude that the bytes b of an integer header carry
WireMagnitude(b) ==
    LET sz == b[1] % 16
        k == sz - 7
    IN  IF sz < 8 THEN NatToU64(sz)
        ELSE [i \in 1..8 |-> IF i <= 8 - k THEN 0 ELSE b[1 + i - (8 - k)]]

\* the header of the negative integer with the largest wire magnitude and
\* the one below it
NegTop == <<63>> \o MaxU64

NegBelowTop == <<63>> \o U64Dec(MaxU64)

\* C14 as stated: the wire magnitude 2^64-1 of a negative integer decodes
\* to a value of its own, distinct from that of the wire magnitude 2^64-2.
C14_LowestDistinct ==
    (hlong = NegTop /\ hlres.ok) => hlres.v # Header_decode(NegBelowTop).v

\* C14 (integer range), amended: every integer from -(2^64-1) to 2^64-1 has
\* a wire form that decodes to it; -1 is the single byte 0x30; a negative
\* header of wire magnitude m denotes -(m+1) up to m = 2^64-2, and the wire
\* magnitude 2^64-1 decodes to -(2^64-1) like 2^64-2 does, so that -2^64 is
\* not reached.
C14_IntegerRange ==
    /\ (hdr.h = "Int" /\ hdr # NegZero /\ hres # Pending)
          => (hres.ok /\ hres.v = hdr)
    /\ (hdr.h = "Int" /\ hdr.sign = "Neg" /\ hdr.n # ZeroU64 /\ hwire # <<>>)
          => /\ Flatten(hwire)[1] \div 16 = 3
             /\ WireMagnitude(Flatten(hwire)) = U64Dec(hdr.n)
    /\ (hdr = Hdr("Int", "Neg", NatToU64(1)) /\ hwire # <<>>) => Flatten(hwire) = <<48>>
    /\ (hlong = <<48>> /\ hlres # Pending)
          => (hlres.ok /\ hlres.v = Hdr("Int", "Neg", NatToU64(1)))
    /\ (hlong = NegTop /\ hlres # Pending)
          => /\ hlres.ok
             /\ hlres.v = Hdr("Int", "Neg", MaxU64)
             /\ hlres.v = Header_decode(NegBelowTop).v
    /\ (hlong = NegTop /\ hpc = "rewritten") => Flatten(hdst) = NegBelowTop

C14_Witness ==
    /\ hpc = "rewritten"
    /\ hlong = NegTop
    /\ hlres.v = Hdr("Int", "Neg", MaxU64)
    /\ Flatten(hdst) = NegBelowTop

\* C15 (saturating negative decode): a negative integer header of wire
\* magnitude m with all its bytes present decodes, without overflow or
\* failure, to Int(Neg, min(m + 1, 2^64 - 1)); 3F FF FF FF FF FF FF FF FF
\* and 3F FF FF FF FF FF FF FF FE both decode to Int(Neg, u64::MAX).
C15_SaturatingNeg ==
    /\ (/\ hlres # Pending
        /\ hlong[1] \div 16 = 3
        /\ Len(hlong) - 1 >= Announced(hlong[1]))
          => LET m == WireMagnitude(hlong)
             IN  /\ hlres.ok
                 /\ hlres.c = 1 + Announced(hlong[1])
                 /\ hlres.v.h = "Int"
                 /\ hlres.v.sign = "Neg"
                 /\ IF m = MaxU64 THEN hlres.v.n = MaxU64
                    ELSE hlres.v.n # ZeroU64 /\ U64Dec(hlres.v.n) = m
    /\ (hlong \in {NegTop, NegBelowTop} /\ hlres # Pending)
          => hlres = [ok |-> TRUE, v |-> Hdr("Int", "Neg", MaxU64), c |-> 9, err |-> "none"]

C15_Witness ==
    /\ hlong = NegBelowTop
    /\ hlres.ok
    /\ hlres.v = Hdr("Int", "Neg", MaxU64)
    /\ hlres.c = 9

\* the ten bytes A1 63 'k' 'e' 'y' 61 'x' A1 E0 00
KeyXBytes == <<161, 99, 107, 101, 121, 97, 120, 161, 224, 0>>

\* C16 as stated: decoding these ten bytes fails with IllegalKey("array").
C16_IllegalKeyArray ==
    (buf = KeyXBytes /\ dpc = "done")
        => (~dres.ok /\ dres.err = "IllegalKey" /\ dres.key = "array")

\* C16, amended: decoding these ten bytes succeeds with the record
\* {"key": Symbol("x")} and 7 bytes consumed, the last three bytes being
\* left unread; a record whose key position holds an array, as in A1 80,
\* fails with IllegalKey("array").
C16_KeyXScenario ==
    /\ (buf = KeyXBytes /\ dpc = "done")
          => /\ dres.ok
             /\ dres.v = VRecord(<<Field(TKey, VSymbol(<<120>>))>>)
             /\ dres.n = 7
    /\ (buf = KeyXBytes /\ dpc \in {"run", "done"}) => pos <= 7
    /\ (buf = <<161, 128>> /\ dpc = "done")
          => dres = DErr("IllegalKey", ZeroU64, "array", 2)

C16_Witness ==
    /\ buf = KeyXBytes
    /\ dpc = "done"
    /\ dres.ok
    /\ dres.n = 7
    /\ pos = 7

(***************************************************************************)
(* The layout pre-pass (src/nachricht-serde/src/preser.rs).  The value is  *)
(* walked by its Serialize implementation, which calls serialize_struct or *)
(* serialize_struct_variant, then serialize_field once per field, the      *)
(* field's value being walked inside that call, and then end.              *)
(***************************************************************************)
\* the names of the walked value's types: a struct S whose fields may hold
\* values of T, a struct T, and an enum that is named T as well
StructNames == {"S", "T"}

EnumNames == {"T"}

VariantNames == {"V"}

FieldNames == {"x", "y"}

\* the (outer, inner) type names such that a field of outer holds an inner
Nests == {<<"S", "T">>}

\* StructPreserializer { name, fields } with variant None, and
\* VariantPreserializer { name, variant, fields } with variant Some(variant);
\* also an entry of layouts.structs: name => variant => Layout { fields }
Layout(name, variant, fields) ==
    [name |-> name, variant |-> variant, fields |-> fields]

\* the value HashMap::insert returns: the entries stored under the key
structs_get(table, name, variant) ==
    {e \in table : e.name = name /\ e.variant = variant}

\* self.layouts.structs.entry(name).or_default().insert(variant, layout)
structs_insert(table, name, variant, layout) ==
    (table \ structs_get(table, name, variant))
    \cup {Layout(name, variant, layout)}

add_struct_layout_once(table, name, variant, layout) ==
    [structs |-> structs_insert(table, name, variant, layout),
     res |-> IF structs_get(table, name, variant) # {}
             THEN PRes(FALSE, "DuplicateLayout", name, variant)
             ELSE PRes(TRUE, "none", "", None)]

\* Preserializer::add_struct_layout: the table after it and its result
add_struct_layout(table, name, variant, layout) ==
    [structs |-> structs_insert(table, name, variant, layout),
     res |-> IF \E old \in structs_get(table, name, variant) :
                    old.fields # layout
             THEN PRes(FALSE, "DuplicateLayout", name, variant)
             ELSE PRes(TRUE, "none", "", None)]

\* Preserializer::add_variant
add_variant(table, name, variant) ==
    table \cup {[name |-> name, variant |-> variant]}

\* whether the walk can meet a struct or struct variant called name here
CanOpen(name) ==
    IF pframes = <<>>
    THEN TRUE
    ELSE /\ pframes[Len(pframes)].fields # <<>>
         /\ <<pframes[Len(pframes)].name, name>> \in Nests

\* serialize_struct(name, len)
PreStruct ==
    /\ ppc = "run"
    /\ \E name \in StructNames :
          /\ CanOpen(name)
          /\ pframes' = Append(pframes, Layout(name, None, <<>>))
    /\ UNCHANGED <<structs, variants, pres, pseen, ppc>>
    /\ UNCHANGED <<hvars, evars, dvars, svars, cvars>>

\* serialize_struct_variant(name, index, variant, len)
PreStructVariant ==
    /\ ppc = "run"
    /\ \E name \in EnumNames, variant \in VariantNames :
          /\ CanOpen(name)
          /\ variants' = add_variant(variants, name, variant)
          /\ pframes' = Append(pframes, Layout(name, Some(variant), <<>>))
    /\ UNCHANGED <<structs, pres, pseen, ppc>>
    /\ UNCHANGED <<hvars, evars, dvars, svars, cvars>>

\* serialize_newtype_variant and serialize_tuple_variant of a value whose
\* payload holds no struct
PreVariant ==
    /\ ppc = "run"
    /\ \E name \in EnumNames, variant \in VariantNames :
          variants' = add_variant(variants, name, variant)
    /\ UNCHANGED <<structs, pframes, pres, pseen, ppc>>
    /\ UNCHANGED <<hvars, evars, dvars, svars, cvars>>

\* serialize_field(key, value) up to the walk of value: a struct has no two
\* fields of one name
PreField ==
    /\ ppc = "run"
    /\ pframes # <<>>
    /\ LET top == pframes[Len(pframes)]
       IN  \E key \in FieldNames :
              /\ \A i \in 1..Len(top.fields) : top.fields[i] # key
              /\ pframes' = [pframes EXCEPT ![Len(pframes)].fields =
                                Append(top.fields, key)]
    /\ UNCHANGED <<structs, variants, pres, pseen, ppc>>
    /\ UNCHANGED <<hvars, evars, dvars, svars, cvars>>

\* end(): add_struct_layout(name, variant, fields)?; an Err is handed up to
\* preserialize by every ? on the way
PreEnd ==
    /\ ppc = "run"
    /\ pframes # <<>>
    /\ LET top == pframes[Len(pframes)]
           r == add_struct_layout(structs, top.name, top.variant, top.fields)
       IN  /\ structs' = r.structs
           /\ pseen' = pseen \cup {top}
           /\ IF r.res.ok
              THEN /\ pframes' = SubSeq(pframes, 1, Len(pframes) - 1)
                   /\ UNCHANGED <<pres, ppc>>
              ELSE /\ pframes' = <<>>
                   /\ pres' = r.res
                   /\ ppc' = "done"
    /\ UNCHANGED variants
    /\ UNCHANGED <<hvars, evars, dvars, svars, cvars>>

\* Ok(preserializer.layouts)
PreFinish ==
    /\ ppc = "run"
    /\ pframes = <<>>
    /\ pres' = PRes(TRUE, "none", "", None)
    /\ ppc' = "done"
    /\ UNCHANGED <<structs, variants, pframes, pseen>>
    /\ UNCHANGED <<hvars, evars, dvars, svars, cvars>>

\* Preserializer { layouts: Default::default() }
PInit ==
    /\ HOff
    /\ EOff
    /\ DOff
    /\ SOff
    /\ COff
    /\ structs = {}
    /\ variants = {}
    /\ pframes = <<>>
    /\ pres = PPending
    /\ pseen = {}
    /\ ppc = "run"

PNext ==
    \/ PreStruct \/ PreStructVariant \/ PreVariant \/ PreField \/ PreEnd
    \/ PreFinish

SpecPre == PInit /\ [][PNext]_vars

(***************************************************************************)
(* Claims about the layout pre-pass (specification SpecPre)                *)
(***************************************************************************)
\* a step that completes a struct or struct variant: its end() is called
Completes == ppc = "run" /\ pframes # <<>> /\ pframes' # pframes
             /\ Len(pframes') < Len(pframes)

\* the pair being completed was completed before with another field list
Conflicts ==
    \E e \in pseen : /\ e.name = pframes[Len(pframes)].name
                     /\ e.variant = pframes[Len(pframes)].variant
                     /\ e.fields # pframes[Len(pframes)].fields

ConflictStep ==
    Completes =>
        IF Conflicts
        THEN /\ ppc' = "done"
             /\ pres' = PRes(FALSE, "DuplicateLayout",
                             pframes[Len(pframes)].name,
                             pframes[Len(pframes)].variant)
        ELSE /\ ppc' = "run"
             /\ pres' = PPending
             /\ pframes' = SubSeq(pframes, 1, Len(pframes) - 1)

\* C19: the pre-pass fails with DuplicateLayout(name, variant) at the very
\* completion of a (name, variant) pair that was completed before with a
\* different ordered field list, and at no other completion: not when the
\* list is the one completed before, not when the pairs differ (a struct
\* and a struct variant of one name are different pairs); and it reports
\* no DuplicateLayout that no completion produced.
C19_LayoutConflict ==
    /\ [][ConflictStep]_vars
    /\ [](pres.err = "DuplicateLayout" =>
             \E e, f \in pseen : /\ e.name = pres.name /\ f.name = pres.name
                                 /\ e.variant = pres.variant
                                 /\ f.variant = pres.variant
                                 /\ e.fields # f.fields)

\* the struct variant T::V fails on its second list although the struct T
\* was completed with that list, and S with yet another list twice over
C19_Witness ==
    /\ ppc = "done"
    /\ pres = PRes(FALSE, "DuplicateLayout", "T", Some("V"))
    /\ Layout("T", Some("V"), <<"x", "y">>) \in pseen
    /\ Layout("T", Some("V"), <<"y", "x">>) \in pseen
    /\ Layout("T", None, <<"y", "x">>) \in pseen
    /\ Layout("S", None, <<"x">>) \in pseen

(***************************************************************************)
(* The serde bridge (src/nachricht-serde/src/ser.rs, de.rs).  Its Header   *)
(* has the variants Null, True, False, F32, F64, Bin, Pos, Neg, Str, Sym,  *)
(* Bag, Key and Ref (de.rs:89-116).  header.rs defines the wire form of    *)
(* Null, True, False, F32, F64, Bin, Str, Sym and Ref; Pos, Neg, Bag and   *)
(* Key have none in src/, so each of them takes one cell of the buffer     *)
(* that holds the header as it is.  Every other cell is a byte.            *)
(***************************************************************************)
ByteCell(b) == [c |-> "byte", b |-> b, h |-> "", n |-> ZeroU64]

HdrCell(h, n) == [c |-> "hdr", b |-> 0, h |-> h, n |-> n]

Cells(bytes) == [i \in 1..Len(bytes) |-> ByteCell(bytes[i])]

WireKinds == FixedKinds \cup {"Bin", "Str", "Sym", "Ref"}

\* Header::encode(&mut self.output) as the bridge calls it
encode_cells(h) ==
    IF h.h \in WireKinds
    THEN Cells(Flatten(Header_encode(h).chunks))
    ELSE <<HdrCell(h.h, h.n)>>

\* the integer types, their signedness and their width in bytes
SignedTypes == {"i8", "i16", "i32", "i64"}

UnsignedTypes == {"u8", "u16", "u32", "u64", "usize"}

IntTypes == SignedTypes \cup UnsignedTypes

IntBytes(t) ==
    CASE t \in {"i8", "u8"} -> 1
      [] t \in {"i16", "u16"} -> 2
      [] t \in {"i32", "u32"} -> 4
      [] OTHER -> 8

\* 2^(8k - 1), the magnitude of the least value of a signed type of k bytes
HalfRange(k) == [i \in 1..8 |-> IF i = 8 - k + 1 THEN 128 ELSE 0]

DBool(x) == DM("bool", "", FALSE, IF x THEN <<1>> ELSE <<0>>, <<>>, <<>>)

DInt(t, neg, mag) == DM(t, "", neg, mag, <<>>, <<>>)

DF32(b) == DM("f32", "", FALSE, b, <<>>, <<>>)

DF64(b) == DM("f64", "", FALSE, b, <<>>, <<>>)

DChar(b) == DM("char", "", FALSE, b, <<>>, <<>>)

DStr(b) == DM("str", "", FALSE, b, <<>>, <<>>)

DBytes(b) == DM("bytes", "", FALSE, b, <<>>, <<>>)

DNone(ty) == DM("option", "", FALSE, <<0>>, <<>>, <<ty>>)

DSome(x) == DM("option", "", FALSE, <<1>>, <<>>, <<x>>)

DUnitStruct(name) == DM("unit_struct", name, FALSE, <<>>, <<>>, <<>>)

DNewtypeStruct(name, x) == DM("newtype_struct", name, FALSE, <<>>, <<>>, <<x>>)

DSeq(items) == DM("seq", "", FALSE, <<>>, <<>>, items)

DTuple(items) == DM("tuple", "", FALSE, <<>>, <<>>, items)

DEntry(k, v) == DM("entry", "", FALSE, <<>>, <<>>, <<k, v>>)

DMap(entries) == DM("map", "", FALSE, <<>>, <<>>, entries)

DStruct(name, keys, values) == DM("struct", name, FALSE, <<>>, keys, values)

DUnitVariant(name, variant) ==
    DM("unit_variant", name, FALSE, variant, <<>>, <<>>)

DNewtypeVariant(name, variant, x) ==
    DM("newtype_variant", name, FALSE, variant, <<>>, <<x>>)

DTupleVariant(name, variant, items) ==
    DM("tuple_variant", name, FALSE, variant, <<>>, items)

DStructVariant(name, variant, keys, values) ==
    DM("struct_variant", name, FALSE, variant, keys, values)

\* header.encode(&mut self.output)?
emit(st, h) ==
    [st EXCEPT !.output = @ \o encode_cells(h), !.log = Append(@, h)]

\* self.output.write_all(bytes)
write_all(st, bytes) == [st EXCEPT !.output = @ \o Cells(bytes)]

\* an entry of Serializer.symbols and of Deserializer.symbols
SymRef(kind, text) == [kind |-> kind, text |-> text]

\* Serializer::serialize_refable
serialize_refable(st, key, kind) ==
    LET hits == {i \in 1..Len(st.symbols) : st.symbols[i] = SymRef(kind, key)}
    IN  IF hits # {}
        THEN emit(st, HLen("Ref",
                  NatToU64((CHOOSE i \in hits : \A j \in hits : i <= j) - 1)))
        ELSE write_all(emit([st EXCEPT !.symbols = Append(@, SymRef(kind, key))],
                            HLen(kind, NatToU64(Len(key)))),
                       key)

\* the quotient and the remainder of a u64 by ten, from byte i on with the
\* remainder r carried in
RECURSIVE DivTen(_, _, _)
DivTen(a, i, r) ==
    IF i > 8 THEN [q |-> <<>>, r |-> r]
    ELSE LET d == DivTen(a, i + 1, (r * 256 + a[i]) % 10)
         IN  [q |-> <<(r * 256 + a[i]) \div 10>> \o d.q, r |-> d.r]

RECURSIVE Digits(_)
Digits(a) ==
    IF a = ZeroU64 THEN <<>>
    ELSE Digits(DivTen(a, 1, 0).q) \o <<48 + DivTen(a, 1, 0).r>>

\* v.to_string() of an integer: its decimal digits in ASCII, "-" before them
to_string(neg, mag) ==
    IF mag = ZeroU64 THEN <<48>>
    ELSE (IF neg THEN <<45>> ELSE <<>>) \o Digits(mag)

\* Serializer::serialize_i64: v.abs() overflows for i64::MIN, which panics
\* in a build that checks overflow and wraps to i64::MIN in one that does
\* not; i64::MIN as u64 is 2^63
serialize_i64(st, neg, mag, checks) ==
    IF neg
    THEN IF mag = HalfRange(8) /\ checks
         THEN [st EXCEPT !.err = "panic"]
         ELSE emit(st, HLen("Neg", mag))
    ELSE emit(st, HLen("Pos", mag))

\* MapKeySerializer (ser.rs:308-435)
RECURSIVE serialize_key(_, _)
serialize_key(st, k) ==
    CASE k.t = "bool" ->
            serialize_refable(st, IF k.b = <<1>> THEN <<116, 114, 117, 101>>
                                  ELSE <<102, 97, 108, 115, 101>>, "Key")
      [] k.t \in IntTypes -> serialize_refable(st, to_string(k.neg, k.b), "Key")
      [] k.t \in {"char", "str", "unit_variant"} ->
            serialize_refable(st, k.b, "Key")
      [] k.t = "newtype_struct" -> serialize_key(st, k.items[1])
      [] OTHER -> [st EXCEPT !.err = "KeyType"]

RECURSIVE serialize(_, _, _)
RECURSIVE serialize_each(_, _, _)
RECURSIVE serialize_fields(_, _, _, _)
RECURSIVE serialize_entries(_, _, _)

\* SerializeSeq::serialize_element and its like, once per element
serialize_each(items, st, checks) ==
    IF items = <<>> \/ st.err # "none" THEN st
    ELSE serialize_each(Tail(items), serialize(Head(items), st, checks), checks)

\* SerializeStruct::serialize_field and SerializeStructVariant's, once per
\* field: the key, then the value
serialize_fields(keys, items, st, checks) ==
    IF keys = <<>> \/ st.err # "none" THEN st
    ELSE serialize_fields(Tail(keys), Tail(items),
             serialize(Head(items),
                       serialize_refable(st, Head(keys), "Key"), checks),
             checks)

\* SerializeMap::serialize_key and serialize_value, once per entry
serialize_entries(entries, st, checks) ==
    IF entries = <<>> \/ st.err # "none" THEN st
    ELSE LET k == serialize_key(st, Head(entries).items[1])
         IN  serialize_entries(Tail(entries),
                 IF k.err # "none" THEN k
                 ELSE serialize(Head(entries).items[2], k, checks),
                 checks)

\* impl ser::Serializer for &mut Serializer: value.serialize(serializer) of
\* a value of the data model
serialize(x, st, checks) ==
    IF st.err # "none" THEN st
    ELSE CASE x.t = "bool" ->
                emit(st, HFixed(IF x.b = <<1>> THEN "True" ELSE "False"))
           [] x.t \in SignedTypes -> serialize_i64(st, x.neg, x.b, checks)
           [] x.t \in UnsignedTypes -> emit(st, HLen("Pos", x.b))
           [] x.t = "f32" -> write_all(emit(st, HFixed("F32")), x.b)
           [] x.t = "f64" -> write_all(emit(st, HFixed("F64")), x.b)
           [] x.t \in {"char", "str"} ->
                write_all(emit(st, HLen("Str", NatToU64(Len(x.b)))), x.b)
           [] x.t = "bytes" ->
                write_all(emit(st, HLen("Bin", NatToU64(Len(x.b)))), x.b)
           [] x.t = "option" ->
                IF x.b = <<1>> THEN serialize(x.items[1], st, checks)
                ELSE emit(st, HFixed("Null"))
           [] x.t \in {"unit", "unit_struct"} -> emit(st, HFixed("Null"))
           [] x.t = "newtype_struct" -> serialize(x.items[1], st, checks)
           [] x.t = "unit_variant" -> serialize_refable(st, x.b, "Sym")
           [] x.t = "newtype_variant" ->
                serialize(x.items[1],
                          serialize_refable(emit(st, HLen("Bag", NatToU64(1))),
                                            x.b, "Key"),
                          checks)
           [] x.t \in {"seq", "tuple"} ->
                serialize_each(x.items,
                               emit(st, HLen("Bag", NatToU64(Len(x.items)))),
                               checks)
           [] x.t = "tuple_variant" ->
                serialize_each(x.items,
                    emit(serialize_refable(emit(st, HLen("Bag", NatToU64(1))),
                                           x.b, "Key"),
                         HLen("Bag", NatToU64(Len(x.items)))),
                    checks)
           [] x.t = "map" ->
                serialize_entries(x.items,
                                  emit(st, HLen("Bag", NatToU64(Len(x.items)))),
                                  checks)
           [] x.t = "struct" ->
                serialize_fields(x.keys, x.items,
                                 emit(st, HLen("Bag", NatToU64(Len(x.items)))),
                                 checks)
           [] x.t = "struct_variant" ->
                serialize_fields(x.keys, x.items,
                    emit(serialize_refable(emit(st, HLen("Bag", NatToU64(1))),
                                           x.b, "Key"),
                         HLen("Bag", NatToU64(Len(x.items)))),
                    checks)

\* to_bytes: the Serializer after value.serialize(&mut serializer)
to_bytes(x, checks) == serialize(x, SerSt(<<>>, <<>>, <<>>, "none"), checks)

\* the state a deserialize call leaves: Ok(v) or Err(err), with
\* Deserializer.pos and Deserializer.symbols
DR(ok, err, found, v, p, syms) ==
    [ok |-> ok, err |-> err, found |-> found, v |-> v, pos |-> p, syms |-> syms]

DDone(v, p, syms) == DR(TRUE, "none", "", v, p, syms)

DFail(err, found, p, syms) == DR(FALSE, err, found, DUnit, p, syms)

\* the bytes from offset p up to the next header cell or the end
ByteRun(input, p) ==
    LET ends == {j \in p..Len(input) :
                    \A i \in (p + 1)..j : input[i].c = "byte"}
        e == CHOOSE j \in ends : \A k \in ends : k <= j
    IN  [i \in 1..(e - p) |-> input[p + i].b]

\* Header::decode(&self.input[self.pos..]) as the bridge calls it
decode_header(input, p) ==
    IF p < Len(input) /\ input[p + 1].c = "hdr"
    THEN Ok(HLen(input[p + 1].h, input[p + 1].n), 1)
    ELSE Header_decode(ByteRun(input, p))

\* a usize of the wire as a number of steps: a count beyond the input's
\* length behaves as any such count, each step reads at least one cell
Count(v, input) ==
    IF IsSmallU64(v) /\ U64ToNat(v) <= Len(input) + 2 THEN U64ToNat(v)
    ELSE Len(input) + 2

\* Deserializer::decode_slice: whether len cells are left
de_slice_ok(input, p, len) == ~U64Lt(NatToU64(Len(input) - p), len)

Slice(input, p, len) == [i \in 1..U64ToNat(len) |-> input[p + i].b]

\* the try_into of decode_int's callers: whether the magnitude mag, negative
\* or not, is a value of the integer type t
try_into(t, neg, mag) ==
    IF t \in SignedTypes
    THEN IF neg THEN ~U64Lt(HalfRange(IntBytes(t)), mag)
         ELSE U64Lt(mag, HalfRange(IntBytes(t)))
    ELSE ~neg /\ \A i \in 1..(8 - IntBytes(t)) : mag[i] = 0

\* Deserializer::decode_int and the try_into of its callers, h being the
\* header at p
de_int(t, h, p, syms) ==
    IF ~h.ok THEN DFail(h.err, "", p, syms)
    ELSE IF h.v.h \notin {"Pos", "Neg"}
    THEN DFail("UnexpectedHeader", h.v.h, p + h.c, syms)
    ELSE IF try_into(t, h.v.h = "Neg" /\ h.v.n # ZeroU64, h.v.n)
    THEN DDone(DInt(t, h.v.h = "Neg" /\ h.v.n # ZeroU64, h.v.n), p + h.c, syms)
    ELSE DFail("Int", "", p + h.c, syms)

\* deserialize_bool, h being the header at p
de_bool(h, p, syms) ==
    IF ~h.ok THEN DFail(h.err, "", p, syms)
    ELSE IF h.v.h \in {"True", "False"}
    THEN DDone(DBool(h.v.h = "True"), p + h.c, syms)
    ELSE DFail("UnexpectedHeader", h.v.h, p + h.c, syms)

\* deserialize_f32 and deserialize_f64: k is 4 or 8, h the header at p
de_float(t, k, h, input, p, syms) ==
    IF ~h.ok THEN DFail(h.err, "", p, syms)
    ELSE IF h.v.h # (IF t = "f32" THEN "F32" ELSE "F64")
    THEN DFail("UnexpectedHeader", h.v.h, p + h.c, syms)
    ELSE IF ~de_slice_ok(input, p + h.c, NatToU64(k))
    THEN DFail("Eof", "", p + h.c, syms)
    ELSE DDone(DM(t, "", FALSE, Slice(input, p + h.c, NatToU64(k)), <<>>, <<>>),
               p + h.c + k, syms)

\* deserialize_unit, h being the header at p
de_unit(v, h, p, syms) ==
    IF ~h.ok THEN DFail(h.err, "", p, syms)
    ELSE IF h.v.h = "Null" THEN DDone(v, p + h.c, syms)
    ELSE DFail("UnexpectedHeader", h.v.h, p + h.c, syms)

\* Deserializer::decode_stringy(header), the cursor being at p; the result's
\* v holds the text in b and the Refable in t: "str" for Sym, "key" for Key
decode_stringy(h, input, p, syms) ==
    CASE h.h \in {"Str", "Sym", "Key"} ->
            IF ~de_slice_ok(input, p, h.n) THEN DFail("Eof", "", p, syms)
            ELSE (LET text == Slice(input, p, h.n)
                      q == p + U64ToNat(h.n)
                  IN  IF ~IsUtf8(text) THEN DFail("Utf8", "", q, syms)
                      ELSE CASE h.h = "Str" -> DDone(DStr(text), q, syms)
                             [] h.h = "Sym" ->
                                  DDone(DStr(text), q,
                                        Append(syms, SymRef("Sym", text)))
                             [] h.h = "Key" ->
                                  DDone(DM("key", "", FALSE, text, <<>>, <<>>), q,
                                        Append(syms, SymRef("Key", text))))
      [] h.h = "Ref" ->
            IF IsSmallU64(h.n) /\ U64ToNat(h.n) < Len(syms)
            THEN LET e == syms[U64ToNat(h.n) + 1]
                 IN  DDone(DM(IF e.kind = "Key" THEN "key" ELSE "str", "",
                              FALSE, e.text, <<>>, <<>>), p, syms)
            ELSE DFail("UnknownRef", "", p, syms)
      [] OTHER -> DFail("UnexpectedHeader", h.h, p, syms)

\* the match on the Refable decode_stringy gave: want is "str" for
\* Refable::Sym and "key" for Refable::Key
expect_refable(want, s) ==
    IF ~s.ok THEN s
    ELSE IF s.v.t # want THEN DFail("UnexpectedRefable", s.v.t, s.pos, s.syms)
    ELSE s

\* the header h at p, then decode_stringy, then the match on the Refable
de_stringy(want, h, input, p, syms) ==
    IF ~h.ok THEN DFail(h.err, "", p, syms)
    ELSE expect_refable(want, decode_stringy(h.v, input, p + h.c, syms))

\* the number of chars of a valid UTF-8 text
Chars(text) == Cardinality({i \in 1..Len(text) : text[i] \notin 128..191})

\* deserialize_char on the text s of deserialize_str
de_char(s) ==
    IF ~s.ok THEN s
    ELSE CASE Chars(s.v.b) = 0 -> DFail("Eof", "", s.pos, s.syms)
           [] Chars(s.v.b) = 1 -> DDone(DChar(s.v.b), s.pos, s.syms)
           [] OTHER -> DFail("Trailing", "", s.pos, s.syms)

RECURSIVE deserialize(_, _, _, _)
RECURSIVE de_each(_, _, _, _, _)
RECURSIVE de_bag(_, _, _, _, _, _)
RECURSIVE de_entries(_, _, _, _, _, _)
RECURSIVE de_fields(_, _, _, _, _, _)

\* the ? on the result r of an element: the next type of tys after it
de_each_next(tys, input, acc, r) ==
    IF ~r.ok THEN r
    ELSE de_each(Tail(tys), input, r.pos, r.syms, Append(acc, r.v))

\* one deserialize per type of tys, in order, up to the first Err; the Ok
\* result holds the values as the items of a tuple
de_each(tys, input, p, syms, acc) ==
    IF tys = <<>> THEN DDone(DTuple(acc), p, syms)
    ELSE de_each_next(tys, input, acc, deserialize(Head(tys), input, p, syms))

\* SeqDeserializer::next_element_seed: r is the result of the seed
next_element_seed(ty, remaining, input, acc, r) ==
    IF ~r.ok THEN r
    ELSE de_bag(ty, remaining - 1, input, r.pos, r.syms, Append(acc, r.v))

\* SeqDeserializer driven by Vec's visitor until None: remaining elements
\* of the type of ty are read
de_bag(ty, remaining, input, p, syms, acc) ==
    IF remaining = 0 THEN DDone(DSeq(acc), p, syms)
    ELSE next_element_seed(ty, remaining, input, acc,
                           deserialize(ty, input, p, syms))

\* MapDeserializer::next_value_seed: v is the result of the seed, k the key
next_value_seed(ty, remaining, input, acc, k, v) ==
    IF ~v.ok THEN v
    ELSE de_entries(ty, remaining - 2, input, v.pos, v.syms,
                    Append(acc, DEntry(k.v, v.v)))

\* MapDeserializer::next_key_seed: k is the result of the seed
next_key_seed(ty, remaining, input, acc, k) ==
    IF ~k.ok THEN k
    ELSE IF remaining - 1 = 0 THEN DFail("Trailing", "", k.pos, k.syms)
    ELSE next_value_seed(ty, remaining, input, acc, k,
                         deserialize(ty.items[2], input, k.pos, k.syms))

\* MapDeserializer driven by HashMap's visitor: next_key_seed, then
\* next_value_seed, each of which takes one off remaining
de_entries(ty, remaining, input, p, syms, acc) ==
    IF remaining = 0 THEN DDone(DMap(acc), p, syms)
    ELSE next_key_seed(ty, remaining, input, acc,
                       deserialize(ty.items[1], input, p, syms))

\* StructDeserializer::next_value_seed: v is the result for field j
field_value_seed(ty, remaining, input, got, j, v) ==
    IF ~v.ok THEN v
    ELSE de_fields(ty, remaining - 1, input, v.pos, v.syms,
                   [got EXCEPT ![j] = <<v.v>>])

\* the field j the derived visitor found for the key k
field_found(ty, remaining, input, got, k, j) ==
    IF got[j] # <<>> THEN DFail("Message", "duplicate field", k.pos, k.syms)
    ELSE field_value_seed(ty, remaining, input, got, j,
                          deserialize(ty.items[j], input, k.pos, k.syms))

\* StructDeserializer::next_key_seed: k is the result of decode_stringy with
\* Refable::Key.  A key that is no field of the struct has its value skipped
\* through deserialize_any, which is not followed here ("unknown_field").
field_key_seed(ty, remaining, input, got, k) ==
    IF ~k.ok THEN k
    ELSE IF \A j \in 1..Len(ty.keys) : ty.keys[j] # k.v.b
    THEN DFail("unknown_field", "", k.pos, k.syms)
    ELSE field_found(ty, remaining, input, got, k,
                     CHOOSE j \in 1..Len(ty.keys) : ty.keys[j] = k.v.b)

\* StructDeserializer driven by the visitor serde derives for a struct with
\* the fields ty.keys: got[j] is <<>> until field j is read
de_fields(ty, remaining, input, p, syms, got) ==
    IF remaining = 0
    THEN IF \E j \in 1..Len(got) : got[j] = <<>> /\ ty.items[j].t # "option"
         THEN DFail("Message", "missing field", p, syms)
         ELSE DDone([ty EXCEPT !.items =
                        [j \in 1..Len(got) |->
                            IF got[j] = <<>> THEN DNone(ty.items[j].items[1])
                            ELSE got[j][1]]],
                    p, syms)
    ELSE field_key_seed(ty, remaining, input, got,
                        de_stringy("key", decode_header(input, p), input, p, syms))

\* visit_byte_buf on the elements r of a Bag of u8
bytes_of_seq(r) ==
    IF ~r.ok THEN r
    ELSE DDone(DBytes([i \in 1..Len(r.v.items) |-> r.v.items[i].b[8]]),
               r.pos, r.syms)

\* deserialize_byte_buf, h being the header at p
deserialize_byte_buf(h, input, p, syms) ==
    IF ~h.ok THEN DFail(h.err, "", p, syms)
    ELSE CASE h.v.h = "Bin" ->
                IF ~de_slice_ok(input, p + h.c, h.v.n)
                THEN DFail("Eof", "", p + h.c, syms)
                ELSE DDone(DBytes(Slice(input, p + h.c, h.v.n)),
                           p + h.c + U64ToNat(h.v.n), syms)
           [] h.v.h = "Bag" ->
                IF ~IsSmallU64(h.v.n) THEN DFail("abort", "", p + h.c, syms)
                ELSE bytes_of_seq(de_bag(DInt("u8", FALSE, ZeroU64),
                                         Count(h.v.n, input), input,
                                         p + h.c, syms, <<>>))
           [] OTHER -> DFail("UnexpectedHeader", h.v.h, p + h.c, syms)

\* visit_some on the result r of the inner value
visit_some(r) == IF ~r.ok THEN r ELSE DDone(DSome(r.v), r.pos, r.syms)

\* deserialize_option that takes the header it looked at
deserialize_option_consume(ty, h, input, p, syms) ==
    IF ~h.ok THEN DFail(h.err, "", p, syms)
    ELSE IF h.v.h = "Null" THEN DDone(DNone(ty.items[1]), p + h.c, syms)
    ELSE visit_some(deserialize(ty.items[1], input, p + h.c, syms))

\* deserialize_option, h being the header at p, which is read again for Some
deserialize_option(ty, h, input, p, syms) ==
    IF ~h.ok THEN DFail(h.err, "", p, syms)
    ELSE IF h.v.h = "Null" THEN DDone(DNone(ty.items[1]), p + h.c, syms)
    ELSE visit_some(deserialize(ty.items[1], input, p, syms))

\* visit_newtype_struct and newtype_variant_seed: ty around the result r
visit_newtype(ty, r) ==
    IF ~r.ok THEN r ELSE DDone([ty EXCEPT !.items = <<r.v>>], r.pos, r.syms)

\* a tuple with fewer elements on the wire than the type has: the visitor
\* reads them and fails with invalid_length
invalid_length(r) ==
    IF ~r.ok THEN r ELSE DFail("Message", "invalid length", r.pos, r.syms)

\* deserialize_seq, deserialize_tuple, deserialize_map, deserialize_struct,
\* h being the header at p
deserialize_bag(ty, h, input, p, syms) ==
    IF ~h.ok THEN DFail(h.err, "", p, syms)
    ELSE IF h.v.h # "Bag" THEN DFail("UnexpectedHeader", h.v.h, p + h.c, syms)
    ELSE CASE ty.t = "seq" ->
                IF Count(h.v.n, input) = 0 THEN DDone(DSeq(<<>>), p + h.c, syms)
                ELSE IF ty.items = <<>>
                THEN DFail("element_type", "", p + h.c, syms)
                ELSE de_bag(ty.items[1], Count(h.v.n, input), input, p + h.c,
                            syms, <<>>)
           [] ty.t = "tuple" ->
                IF Count(h.v.n, input) < Len(ty.items)
                THEN invalid_length(
                        de_each(SubSeq(ty.items, 1, Count(h.v.n, input)),
                                input, p + h.c, syms, <<>>))
                ELSE de_each(ty.items, input, p + h.c, syms, <<>>)
           [] ty.t = "map" ->
                IF Count(h.v.n, input) = 0 THEN DDone(DMap(<<>>), p + h.c, syms)
                ELSE IF ty.items = <<>>
                THEN DFail("element_type", "", p + h.c, syms)
                ELSE de_entries(ty.items[1], Count(h.v.n, input), input,
                                p + h.c, syms, <<>>)
           [] ty.t = "struct" ->
                de_fields(ty, Count(h.v.n, input), input, p + h.c, syms,
                          [j \in 1..Len(ty.keys) |-> <<>>])

\* tuple_variant and struct_variant: ty with the items of the result r
visit_variant_items(ty, r) ==
    IF ~r.ok THEN r ELSE DDone([ty EXCEPT !.items = r.v.items], r.pos, r.syms)

\* EnumDeserializer: k is the result of variant_seed, then the VariantAccess
\* method of ty's variant
variant_seed(ty, k, input) ==
    IF ~k.ok THEN k
    ELSE IF k.v.b # ty.b
    THEN DFail("Message", "unknown variant", k.pos, k.syms)
    ELSE CASE ty.t = "unit_variant" ->
                de_unit(ty, decode_header(input, k.pos), k.pos, k.syms)
           [] ty.t = "newtype_variant" ->
                visit_newtype(ty, deserialize(ty.items[1], input, k.pos, k.syms))
           [] ty.t = "tuple_variant" ->
                visit_variant_items(ty, deserialize(DTuple(ty.items), input,
                                                    k.pos, k.syms))
           [] ty.t = "struct_variant" ->
                visit_variant_items(ty, deserialize(DStruct("", ty.keys, ty.items),
                                                    input, k.pos, k.syms))

\* visit_enum(v.into_deserializer()) on the text s: a unit variant
visit_enum_str(ty, s) ==
    IF ~s.ok THEN s
    ELSE IF s.v.t # "str" THEN DFail("UnexpectedRefable", s.v.t, s.pos, s.syms)
    ELSE IF s.v.b # ty.b THEN DFail("Message", "unknown variant", s.pos, s.syms)
    ELSE IF ty.t # "unit_variant"
    THEN DFail("Message", "invalid type", s.pos, s.syms)
    ELSE DDone(ty, s.pos, s.syms)

\* deserialize_enum, for an enum whose one variant is ty's, h being the
\* header at p
deserialize_enum(ty, h, input, p, syms) ==
    IF ~h.ok THEN DFail(h.err, "", p, syms)
    ELSE IF h.v.h = "Bag" /\ h.v.n = NatToU64(1)
    THEN variant_seed(ty, de_stringy("key", decode_header(input, p + h.c), input,
                                 p + h.c, syms), input)
    ELSE visit_enum_str(ty, decode_stringy(h.v, input, p + h.c, syms))

\* impl de::Deserializer for &mut Deserializer: T::deserialize(deserializer)
\* for the type T of the value ty, by the Deserialize implementation serde
\* has or derives for T
deserialize(ty, input, p, syms) ==
    CASE ty.t = "bool" -> de_bool(decode_header(input, p), p, syms)
      [] ty.t \in IntTypes -> de_int(ty.t, decode_header(input, p), p, syms)
      [] ty.t = "f32" ->
            de_float("f32", 4, decode_header(input, p), input, p, syms)
      [] ty.t = "f64" ->
            de_float("f64", 8, decode_header(input, p), input, p, syms)
      [] ty.t = "char" ->
            de_char(de_stringy("str", decode_header(input, p), input, p, syms))
      [] ty.t = "str" ->
            de_stringy("str", decode_header(input, p), input, p, syms)
      [] ty.t = "bytes" ->
            deserialize_byte_buf(decode_header(input, p), input, p, syms)
      [] ty.t = "option" ->
            deserialize_option(ty, decode_header(input, p), input, p, syms)
      [] ty.t \in {"unit", "unit_struct"} ->
            de_unit(ty, decode_header(input, p), p, syms)
      [] ty.t = "newtype_struct" ->
            visit_newtype(ty, deserialize(ty.items[1], input, p, syms))
      [] ty.t \in {"seq", "tuple", "map", "struct"} ->
            deserialize_bag(ty, decode_header(input, p), input, p, syms)
      [] ty.t \in {"unit_variant", "newtype_variant", "tuple_variant",
                   "struct_variant"} ->
            deserialize_enum(ty, decode_header(input, p), input, p, syms)

from_bytes_lenient(ty, s) ==
    LET r == deserialize(ty, s, 0, <<>>)
    IN  IF ~r.ok THEN FB(FALSE, DUnit, r.err, r.found, r.pos)
        ELSE FB(TRUE, r.v, "none", "", r.pos)

\* from_bytes::<T>(s)
from_bytes(ty, s) ==
    LET r == deserialize(ty, s, 0, <<>>)
    IN  IF ~r.ok THEN FB(FALSE, DUnit, r.err, r.found, r.pos)
        ELSE IF r.pos = Len(s) THEN FB(TRUE, r.v, "none", "", r.pos)
        ELSE FB(FALSE, DUnit, "Trailing", "", r.pos)

(***************************************************************************)
(* The bridge driven as in lib.rs's tests::roundtrip: a value is handed to *)
(* to_bytes, and what to_bytes returns, or that and bytes after it, or a   *)
(* buffer written by hand, is handed to from_bytes.                        *)
(***************************************************************************)
\* i64::MAX
I64Max == <<127, 255, 255, 255, 255, 255, 255, 255>>

\* the fields of struct Test in tests::roundtrip, and values next to them
DataLeaves ==
    {DBool(TRUE), DBool(FALSE),
     DInt("i8", TRUE, NatToU64(1)), DInt("i8", TRUE, NatToU64(128)),
     DInt("i16", TRUE, NatToU64(20)), DInt("i32", TRUE, NatToU64(7000)),
     DInt("i64", TRUE, HalfRange(8)), DInt("i64", FALSE, I64Max),
     DInt("i64", TRUE, NatToU64(1)),
     DInt("u8", FALSE, NatToU64(1)), DInt("u16", FALSE, NatToU64(20)),
     DInt("u32", FALSE, NatToU64(7000)), DInt("u64", FALSE, MaxU64),
     DF32(<<68, 167, 59, 28>>), DF64(<<64, 148, 231, 99, 136, 101, 148, 175>>),
     DChar(<<120>>), DChar(<<195, 173>>), DStr(<<84, 101, 115, 116>>), DStr(<<>>),
     DBytes(<<162, 103, 118>>), DBytes(<<>>),
     DNone(DInt("u8", FALSE, ZeroU64)), DSome(DInt("u8", FALSE, ZeroU64)),
     DUnit, DUnitStruct("UnitStruct"),
     DNewtypeStruct("NewtypeStruct", DStr(<<81, 97, 112, 108, 97, 39>>))}

\* struct Struct { field: 42 }
StructValue == DStruct("Struct", <<<<102, 105, 101, 108, 100>>>>,
                       <<DInt("u8", FALSE, NatToU64(42))>>)

\* struct Cat { name, species } of the crate's example, species being a
\* unit variant of enum Species
Cat(name, species) ==
    DStruct("Cat", <<<<110, 97, 109, 101>>, <<115, 112, 101, 99, 105, 101, 115>>>>,
            <<DStr(name), DUnitVariant("Species", species)>>)

DataCompounds ==
    {DSeq(<<DStr(TA), DStr(TB)>>), DSeq(<<>>),
     DTuple(<<DInt("u16", FALSE, ZeroU64), DInt("u16", FALSE, ZeroU64),
              DInt("u16", FALSE, ZeroU64)>>),
     DMap(<<>>),
     DMap(<<DEntry(DInt("usize", FALSE, NatToU64(1701)), DStr(TA))>>),
     DMap(<<DEntry(DInt("usize", FALSE, NatToU64(1701)), DStr(TA)),
            DEntry(DInt("usize", FALSE, NatToU64(74656)), DStr(TB))>>),
     DMap(<<DEntry(DStr(TKey), DStr(TValue))>>),
     DMap(<<DEntry(DF32(<<63, 128, 0, 0>>), DStr(TValue))>>),
     StructValue,
     DUnitVariant("Enum", <<85>>),
     DNewtypeVariant("Enum", <<78>>, DBool(FALSE)),
     DTupleVariant("Enum", <<84>>, <<DF32(<<63, 128, 0, 0>>),
                                    DF32(<<63, 127, 190, 119>>)>>),
     DStructVariant("Enum", <<83>>, <<TA, TB>>,
                    <<DInt("usize", FALSE, NatToU64(255)),
                      DInt("usize", FALSE, ZeroU64)>>),
     DSeq(<<DUnitVariant("Enum", <<85>>), DUnitVariant("Enum", <<85>>)>>),
     DSeq(<<Cat(TA, TKey), Cat(TB, TKey)>>),
     DSeq(<<StructValue, StructValue>>),
     DStruct("Message", <<TKey, TValue>>,
             <<DInt("u8", FALSE, NatToU64(1)), DSeq(<<Cat(TA, TKey)>>)>>)}

\* struct Test cut down to k fields of one leaf each
TestStruct(leaves) ==
    DStruct("Test", [i \in 1..Len(leaves) |-> <<96 + i>>], leaves)

DataValues ==
    DataLeaves \cup DataCompounds
    \cup {TestStruct(<<a, b>>) : a \in DataLeaves, b \in {DBool(TRUE), DStr(TA)}}

\* Option<T> on its own and as the elements of a Vec
OptionValues ==
    {DSome(DBool(TRUE)), DNone(DBool(TRUE)), DSome(DStr(TA)),
     DSeq(<<DSome(DStr(TA)), DNone(DStr(TA)), DSome(DStr(TA))>>),
     DSeq(<<DNone(DUnitVariant("Enum", <<85>>)), DSome(DUnitVariant("Enum", <<85>>)),
            DSome(DUnitVariant("Enum", <<85>>))>>)}

\* what the caller puts after the bytes of to_bytes
SerdeTrails == {<<>>, Cells(<<0>>), Cells(<<224, 255>>)}

\* the bytes of the hand-written inputs: Null, True, F32, Bin(1), Str(1),
\* Sym(1) or "a", Ref(0), and 32, which is no header of the bridge
RawBytes == {0, 1, 3, 6, 65, 97, 224, 32}

RawInputs == {Cells(b) : b \in SeqsUpTo(RawBytes, MaxLen)}

\* the types T of from_bytes::<T> for the hand-written inputs
RawTypes ==
    {DBool(TRUE), DUnit, DF32(<<0, 0, 0, 0>>), DStr(<<>>), DChar(<<120>>),
     DBytes(<<>>), DNone(DBool(TRUE)), DUnitVariant("Enum", TA)}

SInit ==
    /\ HOff
    /\ EOff
    /\ DOff
    /\ POff
    /\ COff
    /\ \/ /\ sval \in DataValues \cup OptionValues
          /\ schecks \in BOOLEAN
          /\ sty = sval
          /\ sin = <<>>
          /\ spc = "init"
       \/ /\ sval = DUnit
          /\ schecks = FALSE
          /\ sty \in RawTypes
          /\ sin \in RawInputs
          /\ spc = "handed"
    /\ sser = SerSt(<<>>, <<>>, <<>>, "none")
    /\ sres = FBPending

\* to_bytes(&message)
ToBytes ==
    /\ spc = "init"
    /\ sser' = to_bytes(sval, schecks)
    /\ spc' = CASE sser'.err = "none" -> "serialized"
                [] sser'.err = "panic" -> "panicked"
                [] OTHER -> "failed"
    /\ UNCHANGED <<sval, schecks, sin, sty, sres>>
    /\ UNCHANGED <<hvars, evars, dvars, pvars, cvars>>

\* the caller hands the Vec, or the Vec and bytes after it, to from_bytes
SerdeHand ==
    /\ spc = "serialized"
    /\ \E t \in SerdeTrails : sin' = sser.output \o t
    /\ spc' = "handed"
    /\ UNCHANGED <<sval, schecks, sser, sty, sres>>
    /\ UNCHANGED <<hvars, evars, dvars, pvars, cvars>>

\* from_bytes::<T>(&bytes)
FromBytes ==
    /\ spc = "handed"
    /\ sres' = from_bytes(sty, sin)
    /\ spc' = "done"
    /\ UNCHANGED <<sval, schecks, sser, sin, sty>>
    /\ UNCHANGED <<hvars, evars, dvars, pvars, cvars>>

SNext == ToBytes \/ SerdeHand \/ FromBytes

SpecSerde == SInit /\ [][SNext]_vars

(***************************************************************************)
(* Claims about the serde bridge (specification SpecSerde)                 *)
(***************************************************************************)
\* to_bytes was called on sval
Serialized == sser.log # <<>>

\* from_bytes has returned on exactly what to_bytes returned
RoundTripped == spc = "done" /\ Serialized /\ sin = sser.output

\* the values of the bridged data model: no map whose keys are no integers
RECURSIVE Bridged(_)
Bridged(x) ==
    /\ x.t = "map" =>
          \A i \in 1..Len(x.items) : x.items[i].items[1].t \in IntTypes
    /\ \A i \in 1..Len(x.items) : Bridged(x.items[i])

\* C17: for every value x of the bridged data model (bool, the integers
\* with i64::MIN and u64::MAX, floats, char, string, bytes, none and some,
\* unit, unit struct, newtype struct, sequence, tuple, map with integer
\* keys, struct, the four kinds of enum variant, also nested in a struct),
\* to_bytes(x) returns and from_bytes(to_bytes(x)) is Ok of a value equal
\* to x.
C17_DataRoundTrip ==
    Bridged(sval) =>
        /\ spc \notin {"panicked", "failed"}
        /\ RoundTripped => (sres.ok /\ sres.v = sval)

\* the result of T::deserialize(&mut deserializer) on the input
TopLevel == deserialize(sty, sin, 0, <<>>)

\* C18: when the top-level value has been deserialized and a byte is left
\* unread, from_bytes returns Trailing at the cursor's offset and not the
\* value; it returns the value only with the cursor at the input's end.
C18_TrailingData ==
    /\ (spc = "done" /\ TopLevel.ok) =>
          IF TopLevel.pos = Len(sin)
          THEN sres.ok /\ sres.v = TopLevel.v
          ELSE sres = FB(FALSE, DUnit, "Trailing", "", TopLevel.pos)
    /\ (spc = "done" /\ sres.ok) => (TopLevel.ok /\ TopLevel.pos = Len(sin))
    /\ (spc = "done" /\ sty = DBool(TRUE) /\ sin = Cells(<<1, 0>>)) =>
          sres = FB(FALSE, DUnit, "Trailing", "", 1)
    /\ (spc = "done" /\ sty = DBool(TRUE) /\ sin = Cells(<<1>>)) =>
          sres = FB(TRUE, DBool(TRUE), "none", "", 1)
    /\ (spc = "done" /\ Serialized /\ sval = DStr(TA)
        /\ sin = sser.output \o Cells(<<224, 255>>)) =>
          sres = FB(FALSE, DUnit, "Trailing", "", 2)

\* a struct came back whole, to_bytes' output being followed by one byte
C18_Witness ==
    /\ spc = "done"
    /\ sval = StructValue
    /\ Serialized
    /\ sin = sser.output \o Cells(<<0>>)
    /\ TopLevel.ok
    /\ TopLevel.v = StructValue
    /\ sres = FB(FALSE, DUnit, "Trailing", "", Len(sser.output))

\* the headers of the log from the i-th on
LogKinds(i, k) == [j \in 1..k |-> sser.log[i + j - 1].h]

\* C20: within one to_bytes call the first struct of a name is emitted as
\* a Rec(len) header, its field names as Sym headers and then its values,
\* and a later struct of that name as a single Ref header and its values.
C20_StructEmission ==
    /\ (Serialized /\ sser.err = "none" /\ sval.t = "struct") =>
          /\ sser.log[1] = HLen("Rec", NatToU64(Len(sval.keys)))
          /\ Len(sser.log) > Len(sval.keys)
          /\ \A i \in 1..Len(sval.keys) : sser.log[1 + i].h = "Sym"
    /\ (Serialized /\ sval = DSeq(<<StructValue, StructValue>>)) =>
          /\ Len(sser.log) = 6
          /\ LogKinds(2, 2) = <<"Rec", "Sym">>
          /\ sser.log[5].h = "Ref"

(***************************************************************************)
(* Several calls of one caller: Encoder::encode is called for one value    *)
(* after the other, each with an empty Vec as its writer, or               *)
(* Decoder::decode for one buffer after the other.  What the Encoder or    *)
(* Decoder of the call before held stays where it was until the next call  *)
(* builds its own (EncodeStart, DecodeStart).                              *)
(***************************************************************************)
\* The most calls one caller makes.
MaxCalls == 3

CallValues ==
    {VNull, VSymbol(TA), VStr(TA), RecA(VSymbol(TA)), RecAB(VSymbol(TB), VNull),
     VArray(<<RecA(VNull), RecA(VSymbol(TB))>>),
     VMap(<<Pair(VSymbol(TA), RecA(VStr(TB)))>>)}

\* Ref(0), Ref(1) and Null, Sym "a", {a: null}, [Sym "a", Ref(0)],
\* [Ref(0), Sym "a"], and one buffer for each other header
CallBuffers ==
    {<<>>, <<224>>, <<225, 0>>, <<97, 97>>, <<161, 97, 97, 0>>,
     <<130, 97, 97, 224>>, <<130, 224, 97, 97>>,
     <<3, 0, 0, 0, 0>>, <<6, 7>>, <<33>>, <<65, 97>>, <<193, 0, 224>>}

CInit ==
    /\ HOff
    /\ POff
    /\ SOff
    /\ COff
    /\ \/ /\ ins = <<>>
          /\ val \in CallValues
          /\ todo = <<>>
          /\ writer = <<>>
          /\ next_free = 0
          /\ symbols = {}
          /\ records = {}
          /\ ecount = 0
          /\ hlog = <<>>
          /\ epc = "idle"
          /\ DOff
       \/ /\ EOff
          /\ buf \in CallBuffers
          /\ pos = 0
          /\ dsymbols = <<>>
          /\ dstack = <<>>
          /\ dres = DPending
          /\ dpc = "ready"

\* the caller keeps the bytes of the call that returned and calls
\* Encoder::encode for the next value, with an empty Vec
EncodeAgain ==
    /\ epc = "done"
    /\ Len(sent) + 1 < MaxCalls
    /\ sent' = Append(sent, [v |-> val, out |-> Flatten(writer)])
    /\ val' \in CallValues
    /\ writer' = <<>>
    /\ hlog' = <<>>
    /\ epc' = "idle"
    /\ UNCHANGED <<ins, todo, next_free, symbols, records, ecount, seen>>
    /\ UNCHANGED <<hvars, dvars, pvars, svars>>

\* the caller keeps the result of the call that returned and calls
\* Decoder::decode for the next buffer
DecodeAgain ==
    /\ dpc = "done"
    /\ Len(seen) + 1 < MaxCalls
    /\ seen' = Append(seen, [buf |-> buf, res |-> dres, n |-> Len(dsymbols)])
    /\ buf' \in CallBuffers
    /\ dpc' = "ready"
    /\ UNCHANGED <<pos, dsymbols, dstack, dres, sent>>
    /\ UNCHANGED <<hvars, evars, pvars, svars>>

CNext ==
    \/ EncodeStart \/ EncodeLeaf \/ EncodeSymbol \/ EncodeArray \/ EncodeMap
    \/ EncodeRecord \/ EncodeAgain
    \/ DecodeStart \/ DecodeHeaderFail \/ DecodeFixed \/ DecodeFloat \/ DecodeBin
    \/ DecodeInt \/ DecodeArr \/ DecodeMap \/ DecodeStr \/ DecodeSym \/ DecodeRec
    \/ DecodeRef \/ DecodeAgain

SpecCalls == CInit /\ [][CNext]_vars

\* C21: every Encoder::encode and Decoder::decode call starts with an empty
\* table and next index 0, whatever the calls before left: before its first
\* item the encoder's maps are empty and next_free is 0, and before its
\* first header the decoder's table is empty; the bytes of a value are the
\* bytes an earlier call wrote for the same value (the first call of the
\* caller among them), and the result for a buffer is the result an earlier
\* call gave for it, so [E0] after a message that made entries is
\* InvalidRef(0) and [E1 00] is InvalidRef(1).
C21_FreshTable ==
    /\ epc = "run" /\ hlog = <<>> =>
          symbols = {} /\ records = {} /\ next_free = 0
    /\ dpc = "run" /\ pos = 0 => dsymbols = <<>>
    /\ epc = "done" =>
          \A i \in 1..Len(sent) : sent[i].v = val => sent[i].out = Flatten(writer)
    /\ dpc = "done" =>
          /\ \A i \in 1..Len(seen) : seen[i].buf = buf => seen[i].res = dres
          /\ buf = <<224>> => dres = DErr("InvalidRef", ZeroU64, "", 1)
          /\ buf = <<225, 0>> => dres = DErr("InvalidRef", NatToU64(1), "", 1)

\* {a: a} is encoded first, then [{a: null}, {a: b}], then {a: a} again,
\* with Sym "a" and Rec in full
C21_Witness ==
    /\ epc = "done"
    /\ Len(sent) = 2
    /\ sent[1].v = val
    /\ sent[2].v = VArray(<<RecA(VNull), RecA(VSymbol(TB))>>)
    /\ val = RecA(VSymbol(TA))
    /\ Flatten(writer) = <<161, 97, 97, 224>>
    /\ hlog[1].h.h = "Rec"
    /\ hlog[2].h.h = "Sym"

\* the symbols the history tells of: one for every Sym header written
SymTable ==
    {[k |-> hlog[j].text, i |-> SymIndex(j)] :
        j \in {j \in 1..Len(hlog) : hlog[j].h.h = "Sym"}}

\* the layouts the history tells of: one for every Rec header whose keys
\* are all written
RecTable ==
    {[k |-> hlog[r].keys, i |-> RecIndex(r)] :
        r \in {r \in 1..Len(hlog) :
                  hlog[r].h.h = "Rec" /\ r + KeyCount(r) <= Len(hlog)}}

\* an encoder step keeps every entry, gives a new one the next index, and
\* makes a symbol entry with a Sym header only and a layout entry only with
\* the last key of a Rec header (with the header, if it has no key)
EncTableStep ==
    epc = "run" =>
       /\ symbols \subseteq symbols'
       /\ records \subseteq records'
       /\ next_free' = next_free + Cardinality(symbols' \ symbols)
                                 + Cardinality(records' \ records)
       /\ LET e == hlog'[Len(hlog')]
          IN  /\ Len(hlog') = Len(hlog) + 1
              /\ IF e.h.h = "Sym"
                 THEN symbols' = symbols \cup {[k |-> e.text, i |-> next_free]}
                 ELSE symbols' = symbols
              /\ records' # records =>
                    /\ Cardinality(records' \ records) = 1
                    /\ \/ e.h = HLen("Rec", ZeroU64)
                       \/ e.of = "Key" /\ e.h.h \in {"Sym", "Ref"}
                    /\ \A x \in records' \ records : x.i = next_free' - 1
              /\ e.h.h \notin {"Sym", "Ref", "Rec"} => records' = records

\* the Sym header and text at the decoder's cursor are taken
SymRead ==
    /\ NextHeader.ok
    /\ NextHeader.v.h = "Sym"
    /\ slice_ok(pos + NextHeader.c, NextHeader.v.n)
    /\ IsUtf8(SubSeq(buf, pos + NextHeader.c + 1,
                     pos + NextHeader.c + U64ToNat(NextHeader.v.n)))

\* the text of the symbol at the decoder's cursor: of a Sym header, or of a
\* Ref to a symbol entry; <<>> if there is none
KeyRead ==
    IF SymRead
    THEN <<SubSeq(buf, pos + NextHeader.c + 1,
                  pos + NextHeader.c + U64ToNat(NextHeader.v.n))>>
    ELSE IF /\ NextHeader.ok
            /\ NextHeader.v.h = "Ref"
            /\ U64Lt(NextHeader.v.n, NatToU64(Len(dsymbols)))
    THEN (IF dsymbols[U64ToNat(NextHeader.v.n) + 1].r = "Sym"
          THEN dsymbols[U64ToNat(NextHeader.v.n) + 1].keys
          ELSE <<>>)
    ELSE <<>>

\* the keys of the layout that the item at the cursor completes: <<keys>>,
\* or <<>> if it completes none
LayoutRead ==
    IF NextHeader.ok /\ NextHeader.v = HLen("Rec", ZeroU64) THEN << <<>> >>
    ELSE IF dstack # <<>> /\ KeyRead # <<>>
    THEN (LET top == dstack[Len(dstack)]
          IN  IF top.k = "RecKeys" /\ top.n = NatToU64(Len(top.keys) + 1)
              THEN <<top.keys \o KeyRead>>
              ELSE <<>>)
    ELSE <<>>

\* a decoder step appends the entry of the Sym header it read, then the
\* entry of the layout whose last key it read, and nothing else
DecTableStep ==
    dpc = "run" =>
       dsymbols' = dsymbols
                   \o (IF SymRead THEN <<Refable("Sym", KeyRead)>> ELSE <<>>)
                   \o (IF LayoutRead # <<>> THEN <<Refable("Rec", LayoutRead[1])>>
                       ELSE <<>>)

\* C22 (table evolution): the encoder's maps hold, under consecutive
\* indices from 0, one entry for every Sym header written and one for every
\* Rec header whose keys are written, the layout's index after those of its
\* new keys; every step of the encoder and of the decoder appends and never
\* changes or removes: one entry per Sym header, one per Rec header once its
\* keys are through, none for any other item.  The decoder of the encoder's
\* bytes ends with as many entries as there are Sym and Rec headers.
C22_TableEvolution ==
    /\ [](epc \in {"run", "done"} =>
             /\ symbols = SymTable
             /\ records = RecTable
             /\ {x.i : x \in symbols \cup records} = 0..(next_free - 1)
             /\ Cardinality(symbols) + Cardinality(records) = next_free)
    /\ []((epc = "done" /\ dpc = "done" /\ dres.ok) =>
             Len(dsymbols) = Cardinality({j \in 1..Len(hlog) :
                                             hlog[j].h.h \in {"Sym", "Rec"}}))
    /\ [][EncTableStep /\ DecTableStep]_vars

\* [{a: b, b: null}-like record in an array] is decoded: the entries are
\* a, b, the layout, in this order
C22_Witness ==
    /\ epc = "done"
    /\ dpc = "done"
    /\ val = VArray(<<RecAB(VSymbol(TB), VNull), VArray(<<VSymbol(TB)>>)>>)
    /\ dres.ok
    /\ next_free = 3
    /\ dsymbols = <<Refable("Sym", <<TA>>), Refable("Sym", <<TB>>),
                    Refable("Rec", <<TA, TB>>)>>

\* the decoder is at work on the bytes the encoder wrote
Handed == epc = "done" /\ dpc \in {"run", "done"}

\* the items the encoder had written when it had written p bytes
WrittenAt(p) == {j \in 1..Len(hlog) : hlog[j].at < p}

\* the entry the decoder holds under index i; <<>> if it holds none
DecEntry(i) == IF i < Len(dsymbols) THEN <<dsymbols[i + 1]>> ELSE <<>>

\* C23 (tables agree): the decoder that has consumed p bytes of the
\* encoder's output, p the bytes the encoder had written after some item,
\* holds one entry for every index the encoder had assigned by then: Sym(s)
\* under the index of the Sym header of s, Rec(keys) under the index of the
\* Rec header of keys, and no other; at the end these are the encoder's
\* maps.  The Ref the decoder is about to read is below the table's size
\* and names a symbol where the encoder wrote a symbol or key and a layout
\* where it wrote a record; the decode ends Ok.
C23_TablesAgree ==
    Handed =>
       /\ LET done == WrittenAt(pos)
              syms == {j \in done : hlog[j].h.h = "Sym"}
              recs == {r \in done : hlog[r].h.h = "Rec" /\ r + KeyCount(r) \in done}
          IN  (pos = ecount \/ \E j \in 1..Len(hlog) : hlog[j].at = pos) =>
                 /\ Len(dsymbols) = Cardinality(syms) + Cardinality(recs)
                 /\ \A j \in syms :
                       DecEntry(SymIndex(j)) = <<Refable("Sym", <<hlog[j].text>>)>>
                 /\ \A r \in recs :
                       DecEntry(RecIndex(r)) = <<Refable("Rec", hlog[r].keys)>>
       /\ \A j \in 1..Len(hlog) :
             (dpc = "run" /\ hlog[j].at = pos /\ hlog[j].h.h = "Ref") =>
                /\ NextHeader.ok
                /\ NextHeader.v = hlog[j].h
                /\ DecEntry(U64ToNat(hlog[j].h.n)) # <<>>
                /\ DecEntry(U64ToNat(hlog[j].h.n))[1].r
                      = (IF hlog[j].of = "Record" THEN "Rec" ELSE "Sym")
       /\ dpc = "done" =>
             /\ dres.ok
             /\ Len(dsymbols) = next_free
             /\ \A i \in 0..(next_free - 1) :
                   IF DecEntry(i)[1].r = "Sym"
                   THEN [k |-> DecEntry(i)[1].keys[1], i |-> i] \in symbols
                   ELSE [k |-> DecEntry(i)[1].keys, i |-> i] \in records

\* the decoder is about to read the Ref of the second {a: ...} of
\* [{a: null}, {a: {a: null}}]: the table is a, the layout
C23_Witness ==
    /\ Handed
    /\ dpc = "run"
    /\ val = VArray(<<RecA(VNull), RecA(RecA(VNull))>>)
    /\ pos = 5
    /\ NextHeader.v = HLen("Ref", NatToU64(1))
    /\ dsymbols = <<Refable("Sym", <<TA>>), Refable("Rec", <<TA>>)>>
    /\ next_free = 2

\* the Rec headers whose keys the decoder is reading
OpenKeys == {d \in 1..Len(dstack) : dstack[d].k = "RecKeys"}

\* C24 (table bounded by input): at every point of a decode the table has
\* at most as many entries as bytes are consumed (the cursor), the cursor
\* being within the buffer: every entry has a header byte of its own behind
\* the cursor, and so has every Rec header whose entry is still to come.
C24_TableBounded ==
    dpc \in {"run", "done"} =>
       /\ Len(dsymbols) <= pos
       /\ Len(dsymbols) + Cardinality(OpenKeys) <= pos
       /\ pos <= Len(buf)

\* [A1 60 00], {"": null}: the step that reads the key in one byte adds
\* the symbol and the layout; three bytes, two entries
C24_Witness ==
    /\ dpc = "done"
    /\ buf = <<161, 96, 0>>
    /\ dres.ok
    /\ pos = 3
    /\ dsymbols = <<Refable("Sym", <<<<>>>>), Refable("Rec", <<<<>>>>)>>


\* the step hands v to the caller of the decode_value that returns: the
\* result of Decoder::decode at top level, the next element of an array, a
\* map or the values of a record that has room for more than one
Got(v) ==
    IF dstack = <<>> THEN dpc' = "done" /\ dres' = DOk(v, pos')
    ELSE LET top == dstack[Len(dstack)]
             more == CASE top.k = "Arr" -> NatToU64(Len(top.elems) + 1) # top.n
                       [] top.k = "Map" -> NatToU64((Len(top.elems) + 1) \div 2) # top.n
                                           \/ Len(top.elems) % 2 = 0
                       [] top.k = "RecVals" -> Len(top.elems) + 1 # Len(top.keys)
                       [] OTHER -> FALSE
         IN  more => /\ dpc' = "run"
                     /\ dstack' = [dstack EXCEPT ![Len(dstack)].elems = Append(@, v)]

\* the step reads Ref(i), i an entry of the table
RefStep(i) ==
    /\ dpc = "run"
    /\ NextHeader.ok
    /\ NextHeader.v.h = "Ref"
    /\ U64ToNat(NextHeader.v.n) + 1 = i
    /\ i \in 1..Len(dsymbols)

\* the step returns a record to the caller of the decode_value that read
\* its Rec header or its Ref
RecordDone ==
    /\ dpc = "run"
    /\ dstack # <<>>
    /\ dstack[Len(dstack)].k = "RecVals"
    /\ dpc' = "run" => Len(dstack') < Len(dstack)
    /\ dpc' = "done" => dres'.ok

\* C25 (reference resolution in value position): Ref(i) to a layout of n
\* keys consumes the Ref header alone, leaves the table as it is and goes on
\* to read values for exactly these keys, none read so far (a layout of no
\* keys is the empty record at once); a record under way never holds n
\* values or more, and the step that ends a decode with a record has read
\* the n-th value; Ref(i) to a symbol consumes the header alone and hands
\* Symbol with the stored text to its caller.  The two-key layout read once
\* and used by Ref pairs each key with the value at its place.
C25_RefResolution ==
    /\ [](\A d \in 1..Len(dstack) :
             dstack[d].k = "RecVals" =>
                /\ Len(dstack[d].elems) < Len(dstack[d].keys)
                /\ dstack[d].n = NatToU64(Len(dstack[d].keys)))
    /\ [](dpc = "done" /\ buf = <<130, 162, 97, 97, 97, 98, 0, 1, 226, 65, 97, 0>> =>
             dres = DOk(VArray(<<RecAB(VNull, VBool(TRUE)), RecAB(VStr(TA), VNull)>>), 12))
    /\ [][\A i \in 1..Len(dsymbols) :
             RefStep(i) =>
                /\ pos' = pos + NextHeader.c
                /\ IF dsymbols[i].r = "Sym"
                   THEN /\ Got(VSymbol(dsymbols[i].keys[1]))
                        /\ Len(dstack') <= Len(dstack)
                        /\ (dstack = <<>> \/ dstack[Len(dstack)].k # "RecKeys")
                              => dsymbols' = dsymbols
                   ELSE /\ dsymbols' = dsymbols
                        /\ IF dsymbols[i].keys = <<>>
                           THEN Got(VRecord(<<>>))
                           ELSE /\ dpc' = "run"
                                /\ dstack' = Append(dstack,
                                      Frame("RecVals", NatToU64(Len(dsymbols[i].keys)),
                                            <<>>, dsymbols[i].keys))]_vars
    /\ [][RecordDone /\ dpc' = "done" /\ Len(dstack) = 1 =>
             LET top == dstack[1]
             IN  /\ Len(top.elems) + 1 = Len(top.keys)
                 /\ \E v \in {dres'.v.e[j].e[1] : j \in 1..Len(dres'.v.e)} :
                       dres'.v = VRecord(BTreeFrom(ZipFields(top.keys, Append(top.elems, v))))]_vars

\* [82 A2 61 'a' 61 'a' E0 00 00 E1 41 'a' 01]: the layout of the key a
\* twice is used by Ref(1), which reads two values and keeps the second
C25_Witness ==
    /\ dpc = "done"
    /\ buf = <<130, 162, 97, 97, 224, 0, 0, 225, 65, 97, 1>>
    /\ dsymbols = <<Refable("Sym", <<TA>>), Refable("Rec", <<TA, TA>>)>>
    /\ dres = DOk(VArray(<<RecA(VNull), RecA(VBool(TRUE))>>), 11)


\* the bytes decode_slice takes after the header h, when the buffer has them
PayloadLen(h) ==
    CASE h.h = "F32" -> 4
      [] h.h = "F64" -> 8
      [] h.h \in {"Bin", "Str", "Sym"} -> U64ToNat(h.n)
      [] OTHER -> 0

\* the same as a u64, which a payload longer than the buffer needs
PayloadU64(h) ==
    CASE h.h = "F32" -> NatToU64(4)
      [] h.h = "F64" -> NatToU64(8)
      [] OTHER -> h.n

\* the step ends Decoder::decode with an error
FailStep == dpc = "run" /\ dpc' = "done" /\ ~dres'.ok

\* C26 (error offset): a failed decode carries the cursor as its offset,
\* within 0..len(buf).  A header that does not decode fails with the cursor
\* where it was, with the header's own error; a payload that is too short
\* fails as Eof with the cursor after its header, decode_slice not moving
\* it; InvalidRef (and a failed reservation) is reported after the header,
\* Utf8 after the payload, IllegalKey after the last byte of the item in
\* the key position.
C26_ErrorOffset ==
    /\ [](dpc = "done" /\ ~dres.ok => dres.at = pos /\ dres.at \in 0..Len(buf))
    /\ [][FailStep =>
            IF ~NextHeader.ok
            THEN /\ pos' = pos
                 /\ dres'.err = NextHeader.err
                 /\ dres'.err \in {"Eof", "Length"}
            ELSE LET p == pos + NextHeader.c
                     h == NextHeader.v
                 IN  CASE dres'.err = "Eof" ->
                            /\ pos' = p
                            /\ h.h \in {"F32", "F64", "Bin", "Str", "Sym"}
                            /\ U64Lt(NatToU64(Len(buf) - p), PayloadU64(h))
                       [] dres'.err = "InvalidRef" ->
                            /\ pos' = p
                            /\ h.h = "Ref"
                            /\ dres'.ref = h.n
                            /\ ~U64Lt(h.n, NatToU64(Len(dsymbols)))
                       [] dres'.err = "Allocation" ->
                            pos' = p /\ h.h \in {"Arr", "Map", "Rec"}
                       [] dres'.err = "Utf8" ->
                            /\ pos' = p + PayloadLen(h)
                            /\ h.h \in {"Str", "Sym"}
                            /\ ~IsUtf8(SubSeq(buf, p + 1, pos'))
                       [] dres'.err = "IllegalKey" ->
                            /\ pos' = p + PayloadLen(h)
                            /\ \E d \in 1..Len(dstack) : dstack[d].k = "RecKeys"
                            /\ dres'.key # "symbol"
                       [] OTHER -> FALSE]_vars

\* [A1 81 41]: the key of the record is an array whose element, a string,
\* is cut short: Eof at 3, after the Str header
C26_Witness ==
    /\ dpc = "done"
    /\ buf = <<161, 129, 65>>
    /\ dres = DErr("Eof", ZeroU64, "", 3)
    /\ pos = 3
    /\ Len(dstack) = 2


\* the write_all calls of the step, in order
Added == SubSeq(writer', Len(writer) + 1, Len(writer'))

\* the header the step handed to Header::encode
Sent == hlog'[Len(hlog')].h

\* 1 when the step writes a payload after its header (value.rs:149-165,
\* 214), else 0
PayloadCalls == IF Sent.h \in {"F32", "F64", "Bin", "Str", "Sym"} THEN 1 ELSE 0

\* the step emits an item
EmitStep == epc = "run" /\ Len(hlog') = Len(hlog) + 1

\* the writer gets the calls of the step after those it has, and their
\* bytes are the item's: what is written stays as it is
InOrder ==
    /\ SubSeq(writer', 1, Len(writer)) = writer
    /\ Flatten(writer') = Flatten(writer) \o Flatten(Added)
    /\ hlog'[Len(hlog')].at = Len(Flatten(writer))
    /\ Len(Flatten(Added)) = ecount' - ecount

\* C27 as the claim has it: in order, one write call per header and one per
\* payload
C27_OneWritePerHeader ==
    [][EmitStep => InOrder /\ Len(Added) <= 1 + PayloadCalls]_vars

\* C27 (write discipline), amended: the writer gets the calls in message
\* order, nothing written is touched again; a header is one call of one
\* byte when its value fits the lead byte and two calls otherwise, the lead
\* byte and then the 1 to 8 bytes of the value; a float, bytes, string or
\* new symbol is one more call with the whole payload.
C27_WriteDiscipline ==
    [][EmitStep =>
          LET calls == Len(Added) - PayloadCalls
          IN  /\ InOrder
              /\ calls \in {1, 2}
              /\ Len(Added[1]) = 1
              /\ calls = 2 <=> ~U64Lt(IF Sent.h = "Int" /\ Sent.sign = "Neg" /\ Sent.n # ZeroU64
                                       THEN U64Dec(Sent.n) ELSE Sent.n,
                                      NatToU64(sz_limit(code(Sent))))
                               /\ Sent.h \notin FixedKinds
              /\ calls = 2 => Len(Added[2]) \in 1..8
              /\ PayloadCalls = 1 => Added[Len(Added)] = Head(todo).v.b]_vars

\* a string of 25 bytes: the lead byte 58, the length 19 and the text are
\* three calls
C27_Witness ==
    /\ epc = "done"
    /\ val = VStr(TLong)
    /\ writer = << <<88>>, <<25>>, TLong >>
    /\ ecount = 27


\* the header at the start of the buffer, a container of more elements
\* than bytes follow it
Overdeclared ==
    LET h == Header_decode(buf)
    IN  /\ h.ok
        /\ h.v.h \in {"Arr", "Map", "Rec"}
        /\ U64Lt(NatToU64(Len(buf) - h.c), h.v.n)

\* C28 (decoder termination): a decode that was called returns.  The cursor
\* stays within the buffer and never goes back; every decode_value call
\* that does not fail moves it on by at least one byte, so there are at
\* most len(buf) of them; a container at the start of the buffer that
\* declares more elements than bytes follow ends in an error, with fewer
\* elements read than bytes there are.
C28_Termination ==
    /\ dpc = "ready" ~> dpc = "done"
    /\ [](pos \in 0..Len(buf))
    /\ [](dpc = "done" /\ Overdeclared =>
             /\ ~dres.ok
             /\ \A d \in 1..Len(dstack) : Len(dstack[d].elems) + Len(dstack[d].keys) < Len(buf))
    /\ [][dpc = "run" =>
             /\ pos' >= pos
             /\ (dpc' = "run" \/ dres'.ok) => pos' > pos
             /\ dpc' \in {"run", "done"}]_vars

\* [97 00 00 00 00 00 00 00 00]: an array of 23 that has 8 elements ends
\* with Eof at 9 after the eighth
C28_Witness ==
    /\ dpc = "done"
    /\ buf = <<151, 0, 0, 0, 0, 0, 0, 0, 0>>
    /\ dres = DErr("Eof", ZeroU64, "", 9)
    /\ Len(dstack) = 1
    /\ Len(dstack[1].elems) = 8


\* the types T of the Option<T> that are decoded at every place of an input
OptionInner == {DBool(TRUE), DStr(<<>>), DUnitVariant("Enum", TA)}

\* the tables a Deserializer can have at such a place
OptionTables == {<<>>, <<SymRef("Sym", TA)>>, <<SymRef("Key", TA), SymRef("Sym", TB)>>}

\* what deserialize_option of Option<T> gave (r) where the header is h, the
\* cursor p and the table syms, and what T::deserialize gives there (inner)
OptionAt(T, h, r, inner, p, syms) ==
    IF ~h.ok
    THEN r = DFail(h.err, "", p, syms)
    ELSE IF h.v.h = "Null"
    THEN r = DDone(DNone(T), p + 1, syms)
    ELSE IF inner.ok
    THEN r = DDone(DSome(inner.v), inner.pos, inner.syms)
    ELSE r = inner

\* C29 (option decoding): at every cursor p of an input from_bytes was
\* given and with every table, Option<T> decodes as follows: a header that
\* does not decode is that error at p, table as it was; Null is None with
\* the cursor at p + 1, table as it was; every other header gives what
\* T::deserialize gives from the same cursor p and the same table (its
\* value in Some, its cursor and table, or its error), so the header the
\* option looked at is the first the value reads.  An option, and a Vec of
\* options of a repeated string or unit variant, comes back from the bytes
\* of to_bytes as it was.
C29_OptionDecoding ==
    spc = "done" =>
       /\ \A T \in OptionInner, syms \in OptionTables, p \in 0..Len(sin) :
             OptionAt(T, decode_header(sin, p),
                      deserialize(DNone(T), sin, p, syms),
                      deserialize(T, sin, p, syms), p, syms)
       /\ (sval \in OptionValues /\ sin = sser.output) => sres = FB(TRUE, sval, "none", "", Len(sin))

\* [None, Some(U), Some(U)] of a unit variant U: Bag(3), Null, Sym "U",
\* Ref(0); the Ref is looked at by the option and read by the variant, which
\* finds the symbol in the table
C29_Witness ==
    /\ spc = "done"
    /\ sval = DSeq(<<DNone(DUnitVariant("Enum", <<85>>)), DSome(DUnitVariant("Enum", <<85>>)),
                     DSome(DUnitVariant("Enum", <<85>>))>>)
    /\ Len(sin) = 5
    /\ sin[2] = ByteCell(0)
    /\ decode_header(sin, 4) = Ok(HLen("Ref", ZeroU64), 1)
    /\ sres = FB(TRUE, sval, "none", "", 5)


\* C30 (signed integer emission): to_bytes of a signed integer v returns,
\* and its output is the one header Neg(|v|) for v < 0, with magnitude 2^63
\* for i64::MIN, and Pos(v) for v >= 0.
C30_SignedEmission ==
    (spc # "init" /\ sval.t \in SignedTypes) =>
       /\ sser.err = "none"
       /\ sser.output = <<HdrCell(IF sval.neg THEN "Neg" ELSE "Pos", sval.b)>>
       /\ sser.log = <<HLen(IF sval.neg THEN "Neg" ELSE "Pos", sval.b)>>

====
